---- MODULE Spec2Model ----
(***************************************************************************)
(* Model of the draco adapter runtime (code0-tech/draco).                  *)
(*                                                                         *)
(*  - ServerRunner::serve (crates/base/src/runner.rs): the lifecycle that  *)
(*    hosts an adapter (init / run / shutdown), the optional health task   *)
(*    and the Ctrl+C / SIGTERM watchers.                                   *)
(*  - AdapterStore::is_matching_key (crates/base/src/store.rs): the        *)
(*    pattern/key filter of the flow registry.                             *)
(*  - AdapterStore::get_possible_flow_match: the scan of the registry,     *)
(*    with registry writers running beside it.                             *)
(*  - AdapterStore::validate_and_execute_flow and the earlier              *)
(*    IdentifiableAdapterStore::validate_and_execute (crates/base/src/     *)
(*    lib.rs): the dispatch of a flow to the executor over the bus.        *)
(*  - handle_request (adapter/rest/src/main.rs): the HTTP shell.           *)
(*  - Cron::run (adapter/cron/src/main.rs): the Cron shell, its tick and   *)
(*    its dispatch arms.                                                   *)
(*  - verify_flow and the rules (crates/validator/src): the validator.     *)
(*  - expect_kind and exists_path (draco_validator/src/path/mod.rs): the   *)
(*    dotted-path lookup.                                                  *)
(***************************************************************************)
EXTENDS Integers, Sequences, FiniteSets, TLC

VARIABLES
    \* ---- configuration read by ServerRunner::new ----
    adapter,        \* which implementation of the Server trait is hosted
    mode,           \* AdapterConfig.mode
    withHealth,     \* AdapterConfig.with_health_service
    addrParses,     \* does "<grpc_host>:<grpc_port>" parse as a socket address
    \* ---- ServerRunner::serve ----
    pc,             \* position of serve
    push,           \* definition push to the control plane
    health,         \* the spawned health task
    abortCalls,     \* number of ht.abort() calls
    initOutcome,    \* what server.init returned
    runState,       \* the future server.run(&context) polled by select!
    runCalls,       \* number of times server.run was started
    ctrlC,          \* a Ctrl+C (SIGINT) is pending
    sigTerm,        \* a SIGTERM is pending
    trigger,        \* the select! branch that completed
    shutdownCalls,  \* number of times server.shutdown was invoked
    shutdownOutcome,\* what server.shutdown returned
    result,         \* what serve returned (or that it unwound by panic)
    exitCode,       \* exit code of the process, once main has ended
    \* ---- AdapterStore::is_matching_key ----
    pattern,        \* the pattern argument, a string (sequence of characters)
    key,            \* the key argument, a string
    matched,        \* the value returned ("true"/"false"), "none" before the call
    \* ---- the flow registry (a key-value bucket owned by others) ----
    registry,       \* key -> stored bytes, NoValue where the key is absent
    writes,         \* number of writes done by registry writers
    \* ---- AdapterStore::get_possible_flow_match ----
    scanPattern,    \* the pattern argument
    accept,         \* the flows for which id.identify returns true
    scanPc,         \* position of the scan
    pending,        \* keys the key stream has still to yield
    cur,            \* the key of the current loop iteration
    collector,      \* the Vec of flows collected so far
    provenance,     \* for each collected flow, the key and the bytes fetched
    fetchLog,       \* the fetches done, in order: key and what kv.get returned
    snapshot,       \* the keys present when the key stream was opened
    passed,         \* the flows handed to id.identify
    scanErr,        \* where the key enumeration failed, "none" if nowhere
    lateKeys,       \* keys inserted after the key stream was opened
    scanResult,     \* the FlowIdentifyResult returned
    \* ---- validate_and_execute_flow, one entry per call ----
    dispatcher,     \* which implementation of the dispatcher is called
    dPc,            \* position of each call
    dFlow,          \* the flow argument of each call
    dInput,         \* the input_value argument of each call
    dUuid,          \* the correlation identifier each call allocated
    dReply,         \* what client.request returned to each call
    dResult,        \* what each call returned
    bus,            \* the requests published on the bus, in order
    \* ---- handle_request ----
    hPc,            \* position of the request handler
    reqSlug,        \* first path segment of the request, "" when missing
    reqBody,        \* the request body
    respStatus,     \* status code of the response, 0 before it is built
    respMsg,        \* error message of the response
    \* ---- Cron::run ----
    cPc,            \* position of the run loop of the Cron adapter
    clock,          \* the wall clock, in whole minutes
    cNow,           \* `now`, the minute read at the top of the loop
    cTicks,         \* scans started so far
    cQueue,         \* the flows the tick hands to the dispatcher
    \* ---- verify_flow ----
    vFlow,          \* the flow argument: input type and data types
    vBody,          \* the body argument
    vResult,        \* what verify_flow returned
    \* ---- path::expect_kind and path::exists_path ----
    pPath,          \* the path argument
    pValue,         \* the value argument
    pKind,          \* what expect_kind returned
    pExists         \* what exists_path returned

runnerVars == <<adapter, mode, withHealth, addrParses, pc, push, health,
                abortCalls, initOutcome, runState, runCalls, ctrlC, sigTerm,
                trigger, shutdownCalls, shutdownOutcome, result, exitCode>>
matchVars == <<pattern, key, matched>>
registryVars == <<registry, writes>>
scanVars == <<scanPattern, accept, scanPc, pending, cur, collector,
              provenance, fetchLog, snapshot, passed, scanErr, lateKeys,
              scanResult>>
dispatchVars == <<dispatcher, dPc, dFlow, dInput, dUuid, dReply, dResult, bus>>
httpVars == <<hPc, reqSlug, reqBody, respStatus, respMsg>>
cronVars == <<cPc, clock, cNow, cTicks, cQueue>>
verifyVars == <<vFlow, vBody, vResult>>
pathVars == <<pPath, pValue, pKind, pExists>>
vars == <<runnerVars, matchVars, registryVars, scanVars, dispatchVars,
          httpVars, cronVars, verifyVars, pathVars>>
\* What the lifecycle never touches.
nonRunnerVars == <<matchVars, registryVars, scanVars, dispatchVars, httpVars, cronVars,
                   verifyVars, pathVars>>
\* What a call of is_matching_key never touches.
nonMatchVars == <<runnerVars, registryVars, scanVars, dispatchVars, httpVars, cronVars,
                   verifyVars, pathVars>>

(***************************************************************************)
(* Adapters.  "Abstract" is any implementation of the Server trait whose   *)
(* operations return Ok or Err; "Http" is the shipped REST adapter.        *)
(***************************************************************************)
Adapters == {"Abstract", "Http"}
Modes == {"STATIC", "DYNAMIC"}

\* AdapterConfig::is_static
is_static == mode = "STATIC"

\* What init can return.  HttpServer::init fails when the bind address does
\* not parse.
InitOutcomes(a) == {"Ok", "Err"}

\* How run can end when it ends at all.  HttpServer::run never returns: it
\* loops on accept and panics when bind or accept fails.
RunOutcomes(a) == IF a = "Http" THEN {"Panic"} ELSE {"Ok", "Err"}

\* How shutdown can end.  HttpServer::shutdown is todo!(), which panics.
ShutdownOutcomes(a) == IF a = "Http" THEN {"Panic"} ELSE {"Ok", "Err"}

\* main: Ok(_) => () ; Err(err) => panic!.  A panic ends the process with
\* Rust's panic exit code.
ExitCodeOf(r) == IF r = "Ok" THEN 0 ELSE 101

\* ht.abort(): a running task is cancelled, a finished one is left as it is.
Aborted(h) == IF h = "running" THEN "aborted" ELSE h

\* Dropping the un-selected run future cancels it where it is suspended.
Dropped(r) == IF r \in {"unstarted", "running"} THEN "cancelled" ELSE r

RunnerIdle ==
    /\ adapter = "Abstract" /\ mode = "STATIC" /\ withHealth = FALSE
    /\ addrParses = TRUE /\ pc = "idle" /\ push = "none" /\ health = "none"
    /\ abortCalls = 0 /\ initOutcome = "none" /\ runState = "unstarted"
    /\ runCalls = 0 /\ ctrlC = FALSE /\ sigTerm = FALSE /\ trigger = "none"
    /\ shutdownCalls = 0 /\ shutdownOutcome = "none" /\ result = "none"
    /\ exitCode = -1

MatchIdle == pattern = <<>> /\ key = <<>> /\ matched = "none"

\* An absent registry key, and the reading of it.
NoValue == <<"absent">>

RegistryIdle == registry = <<>> /\ writes = 0

ScanIdle ==
    /\ scanPattern = <<>> /\ accept = {} /\ scanPc = "idle" /\ pending = {}
    /\ cur = <<>> /\ collector = <<>> /\ provenance = <<>>
    /\ fetchLog = <<>> /\ snapshot = {} /\ passed = {} /\ scanErr = "none"
    /\ lateKeys = {} /\ scanResult = [kind |-> "pending", flows |-> <<>>]

DispatchIdle ==
    /\ dispatcher = "AdapterStore" /\ dPc = <<>> /\ dFlow = <<>>
    /\ dInput = <<>> /\ dUuid = <<>> /\ dReply = <<>> /\ dResult = <<>>
    /\ bus = <<>>

CronIdle ==
    cPc = "idle" /\ clock = 0 /\ cNow = 0 /\ cTicks = 0 /\ cQueue = <<>>

VerifyIdle == vFlow = <<>> /\ vBody = <<>> /\ vResult = <<>>

PathIdle == pPath = <<>> /\ pValue = <<>> /\ pKind = <<>> /\ pExists = <<>>

HttpIdle ==
    /\ hPc = "idle" /\ reqSlug = <<>> /\ reqBody = "none" /\ respStatus = 0
    /\ respMsg = "none"

\* The state after ServerRunner::new: configuration loaded, serve not begun.
RunnerInit ==
    /\ adapter \in Adapters
    /\ mode \in Modes
    /\ withHealth \in BOOLEAN
    /\ addrParses \in BOOLEAN
    /\ pc = "start"
    /\ push = "none"
    /\ health = "none"
    /\ abortCalls = 0
    /\ initOutcome = "none"
    /\ runState = "unstarted"
    /\ runCalls = 0
    /\ ctrlC = FALSE
    /\ sigTerm = FALSE
    /\ trigger = "none"
    /\ shutdownCalls = 0
    /\ shutdownOutcome = "none"
    /\ result = "none"
    /\ exitCode = -1

Init ==
    RunnerInit /\ MatchIdle /\ RegistryIdle /\ ScanIdle /\ DispatchIdle
    /\ HttpIdle /\ CronIdle /\ VerifyIdle /\ PathIdle

(***************************************************************************)
(* serve, lines 57-64: the definition push, only when not static.          *)
(***************************************************************************)
\* Defective variant of ServeStart: the push is started but not awaited.
ServeStartNoAwait ==
    /\ pc = "start"
    /\ pc' = "health"
    /\ push' = IF is_static THEN push ELSE "inflight"
    /\ UNCHANGED nonRunnerVars
    /\ UNCHANGED <<adapter, mode, withHealth, addrParses, health, abortCalls,
                   initOutcome, runState, runCalls, ctrlC, sigTerm, trigger,
                   shutdownCalls, shutdownOutcome, result, exitCode>>

ServeStart ==
    /\ pc = "start"
    /\ IF is_static
          THEN pc' = "health" /\ push' = push
          ELSE pc' = "push" /\ push' = "inflight"
    /\ UNCHANGED nonRunnerVars
    /\ UNCHANGED <<adapter, mode, withHealth, addrParses, health, abortCalls,
                   initOutcome, runState, runCalls, ctrlC, sigTerm, trigger,
                   shutdownCalls, shutdownOutcome, result, exitCode>>

\* definition_service.send().await completes (best effort: sent or failed);
\* serve resumes when it was awaiting it.
PushCompletes ==
    /\ push = "inflight"
    /\ push' \in {"sent", "failed"}
    /\ pc' = IF pc = "push" THEN "health" ELSE pc
    /\ UNCHANGED nonRunnerVars
    /\ UNCHANGED <<adapter, mode, withHealth, addrParses, health, abortCalls,
                   initOutcome, runState, runCalls, ctrlC, sigTerm, trigger,
                   shutdownCalls, shutdownOutcome, result, exitCode>>

(***************************************************************************)
(* serve, lines 66-90: the health task.                                    *)
(***************************************************************************)
SpawnHealth ==
    /\ pc = "health"
    /\ IF ~withHealth
          THEN pc' = "init" /\ health' = health /\ result' = result
          ELSE IF addrParses
                  THEN pc' = "init" /\ health' = "running" /\ result' = result
                  ELSE pc' = "returned" /\ health' = health
                       /\ result' = "ErrAddr"
    /\ UNCHANGED nonRunnerVars
    /\ UNCHANGED <<adapter, mode, withHealth, addrParses, push, abortCalls,
                   initOutcome, runState, runCalls, ctrlC, sigTerm, trigger,
                   shutdownCalls, shutdownOutcome, exitCode>>

\* The health server stops by itself (error or graceful stop).
HealthTaskEnds ==
    /\ health = "running"
    /\ pc \notin {"exited"}
    /\ health' = "finished"
    /\ UNCHANGED nonRunnerVars
    /\ UNCHANGED <<adapter, mode, withHealth, addrParses, pc, push, abortCalls,
                   initOutcome, runState, runCalls, ctrlC, sigTerm, trigger,
                   shutdownCalls, shutdownOutcome, result, exitCode>>

(***************************************************************************)
(* serve, lines 92-98: server.init(&context).await?                        *)
(***************************************************************************)
\* Defective variant of ServeInit: the result of init is discarded.
ServeInitIgnoresErr ==
    /\ pc = "init"
    /\ \E r \in InitOutcomes(adapter) : initOutcome' = r
    /\ pc' = "select"
    /\ UNCHANGED nonRunnerVars
    /\ UNCHANGED <<adapter, mode, withHealth, addrParses, push, health,
                   abortCalls, runState, runCalls, ctrlC, sigTerm, trigger,
                   shutdownCalls, shutdownOutcome, result, exitCode>>

ServeInit ==
    /\ pc = "init"
    /\ \E r \in InitOutcomes(adapter) :
          /\ initOutcome' = r
          /\ IF r = "Ok"
                THEN pc' = "select" /\ result' = result
                ELSE pc' = "returned" /\ result' = "ErrInit"
    /\ UNCHANGED nonRunnerVars
    /\ UNCHANGED <<adapter, mode, withHealth, addrParses, push, health,
                   abortCalls, runState, runCalls, ctrlC, sigTerm, trigger,
                   shutdownCalls, shutdownOutcome, exitCode>>

(***************************************************************************)
(* The futures select! waits on, lines 112-160.                            *)
(***************************************************************************)
\* First poll of server.run(&context).
RunStarts ==
    /\ pc = "select"
    /\ runState = "unstarted"
    /\ runState' = "running"
    /\ runCalls' = runCalls + 1
    /\ UNCHANGED nonRunnerVars
    /\ UNCHANGED <<adapter, mode, withHealth, addrParses, pc, push, health,
                   abortCalls, initOutcome, ctrlC, sigTerm, trigger,
                   shutdownCalls, shutdownOutcome, result, exitCode>>

\* run ends on its own while select! polls it.  A panic inside run unwinds
\* serve, whose locals (the JoinHandle included) are dropped.
RunEnds ==
    /\ pc = "select"
    /\ runState = "running"
    /\ \E r \in RunOutcomes(adapter) :
          IF r = "Panic"
             THEN /\ runState' = "panicked"
                  /\ pc' = "panicked"
                  /\ result' = "Panic"
             ELSE /\ runState' = (IF r = "Ok" THEN "returnedOk" ELSE "returnedErr")
                  /\ pc' = pc
                  /\ result' = result
    /\ UNCHANGED nonRunnerVars
    /\ UNCHANGED <<adapter, mode, withHealth, addrParses, push, health,
                   abortCalls, initOutcome, runCalls, ctrlC, sigTerm, trigger,
                   shutdownCalls, shutdownOutcome, exitCode>>

\* The user presses Ctrl+C while serve waits in select!.
CtrlCArrives ==
    /\ pc = "select"
    /\ ~ctrlC
    /\ ctrlC' = TRUE
    /\ UNCHANGED nonRunnerVars
    /\ UNCHANGED <<adapter, mode, withHealth, addrParses, pc, push, health,
                   abortCalls, initOutcome, runState, runCalls, sigTerm,
                   trigger, shutdownCalls, shutdownOutcome, result, exitCode>>

\* The process receives SIGTERM while serve waits in select!.
SigTermArrives ==
    /\ pc = "select"
    /\ ~sigTerm
    /\ sigTerm' = TRUE
    /\ UNCHANGED nonRunnerVars
    /\ UNCHANGED <<adapter, mode, withHealth, addrParses, pc, push, health,
                   abortCalls, initOutcome, runState, runCalls, ctrlC,
                   trigger, shutdownCalls, shutdownOutcome, result, exitCode>>

(***************************************************************************)
(* The branches of select!.  Exactly one ready branch completes; the other *)
(* futures are dropped.                                                    *)
(***************************************************************************)
\* Defective variant of RunFinishedBranch: `res?` placed before ht.abort(),
\* so an Err of run leaves serve with the health task untouched.
RunFinishedBranchEarlyReturn ==
    /\ pc = "select"
    /\ runState \in {"returnedOk", "returnedErr"}
    /\ trigger' = "run"
    /\ IF health # "none" /\ runState = "returnedOk"
          THEN health' = Aborted(health) /\ abortCalls' = abortCalls + 1
          ELSE health' = health /\ abortCalls' = abortCalls
    /\ result' = IF runState = "returnedOk" THEN "Ok" ELSE "ErrRun"
    /\ pc' = "returned"
    /\ UNCHANGED nonRunnerVars
    /\ UNCHANGED <<adapter, mode, withHealth, addrParses, push, initOutcome,
                   runState, runCalls, ctrlC, sigTerm, shutdownCalls,
                   shutdownOutcome, exitCode>>

\* res = server.run(&context) => { ht.abort(); res?; }   (lines 116-120)
\*                               { res?; }               (lines 144-147)
RunFinishedBranch ==
    /\ pc = "select"
    /\ runState \in {"returnedOk", "returnedErr"}
    /\ trigger' = "run"
    /\ IF health # "none"
          THEN health' = Aborted(health) /\ abortCalls' = abortCalls + 1
          ELSE health' = health /\ abortCalls' = abortCalls
    /\ result' = IF runState = "returnedOk" THEN "Ok" ELSE "ErrRun"
    /\ pc' = "returned"
    /\ UNCHANGED nonRunnerVars
    /\ UNCHANGED <<adapter, mode, withHealth, addrParses, push, initOutcome,
                   runState, runCalls, ctrlC, sigTerm, shutdownCalls,
                   shutdownOutcome, exitCode>>

\* _ = &mut ht => { server.shutdown(&context).await?; }   (lines 123-126)
HealthEndedBranch ==
    /\ pc = "select"
    /\ health = "finished"
    /\ trigger' = "health"
    /\ runState' = Dropped(runState)
    /\ shutdownCalls' = shutdownCalls + 1
    /\ pc' = "shutdown"
    /\ UNCHANGED nonRunnerVars
    /\ UNCHANGED <<adapter, mode, withHealth, addrParses, push, health,
                   abortCalls, initOutcome, runCalls, ctrlC, sigTerm,
                   shutdownOutcome, result, exitCode>>

\* Defective variant of CtrlCBranch: the run future is kept alive while
\* shutdown is awaited.
CtrlCBranchKeepsRun ==
    /\ pc = "select"
    /\ ctrlC
    /\ trigger' = "ctrlc"
    /\ shutdownCalls' = shutdownCalls + 1
    /\ pc' = "shutdown"
    /\ UNCHANGED nonRunnerVars
    /\ UNCHANGED <<adapter, mode, withHealth, addrParses, push, health,
                   abortCalls, initOutcome, runState, runCalls, ctrlC, sigTerm,
                   shutdownOutcome, result, exitCode>>

\* _ = signal::ctrl_c() => { server.shutdown(&context).await?; ht.abort(); }
\*                                            (lines 129-133 and 150-153)
CtrlCBranch ==
    /\ pc = "select"
    /\ ctrlC
    /\ trigger' = "ctrlc"
    /\ runState' = Dropped(runState)
    /\ shutdownCalls' = shutdownCalls + 1
    /\ pc' = "shutdown"
    /\ UNCHANGED nonRunnerVars
    /\ UNCHANGED <<adapter, mode, withHealth, addrParses, push, health,
                   abortCalls, initOutcome, runCalls, ctrlC, sigTerm,
                   shutdownOutcome, result, exitCode>>

\* Defective variant of SigTermBranch: the branch forgets to call shutdown.
SigTermBranchNoShutdown ==
    /\ pc = "select"
    /\ sigTerm
    /\ trigger' = "sigterm"
    /\ runState' = Dropped(runState)
    /\ pc' = "afterShutdown"
    /\ UNCHANGED nonRunnerVars
    /\ UNCHANGED <<adapter, mode, withHealth, addrParses, push, health,
                   abortCalls, initOutcome, runCalls, ctrlC, sigTerm,
                   shutdownCalls, shutdownOutcome, result, exitCode>>

\* _ = sigterm => { server.shutdown(&context).await?; ht.abort(); }
\*                                            (lines 134-138 and 154-157)
SigTermBranch ==
    /\ pc = "select"
    /\ sigTerm
    /\ trigger' = "sigterm"
    /\ runState' = Dropped(runState)
    /\ shutdownCalls' = shutdownCalls + 1
    /\ pc' = "shutdown"
    /\ UNCHANGED nonRunnerVars
    /\ UNCHANGED <<adapter, mode, withHealth, addrParses, push, health,
                   abortCalls, initOutcome, runCalls, ctrlC, sigTerm,
                   shutdownOutcome, result, exitCode>>

\* Defective variant of ShutdownReturns: select! wrapped in a loop that is
\* not left once shutdown has returned Ok.
ShutdownReturnsLoop ==
    /\ pc = "shutdown"
    /\ \E r \in ShutdownOutcomes(adapter) :
          /\ shutdownOutcome' = r
          /\ CASE r = "Ok"    -> pc' = "select" /\ result' = result
               [] r = "Err"   -> pc' = "returned" /\ result' = "ErrShutdown"
               [] r = "Panic" -> pc' = "panicked" /\ result' = "Panic"
    /\ UNCHANGED nonRunnerVars
    /\ UNCHANGED <<adapter, mode, withHealth, addrParses, push, health,
                   abortCalls, initOutcome, runState, runCalls, ctrlC, sigTerm,
                   trigger, shutdownCalls, exitCode>>

\* server.shutdown(&context).await? returns inside a branch: Err leaves serve
\* through `?`, a panic unwinds serve, Ok goes on to the rest of the branch.
ShutdownReturns ==
    /\ pc = "shutdown"
    /\ \E r \in ShutdownOutcomes(adapter) :
          /\ shutdownOutcome' = r
          /\ CASE r = "Ok"    -> pc' = "afterShutdown" /\ result' = result
               [] r = "Err"   -> pc' = "returned" /\ result' = "ErrShutdown"
               [] r = "Panic" -> pc' = "panicked" /\ result' = "Panic"
    /\ UNCHANGED nonRunnerVars
    /\ UNCHANGED <<adapter, mode, withHealth, addrParses, push, health,
                   abortCalls, initOutcome, runState, runCalls, ctrlC, sigTerm,
                   trigger, shutdownCalls, exitCode>>

\* The rest of the branch after shutdown returned Ok: ht.abort() in the two
\* signal branches of the Some(ht) arm, then "Draco shutdown complete", Ok(()).
BranchCompletes ==
    /\ pc = "afterShutdown"
    /\ IF health # "none" /\ trigger \in {"ctrlc", "sigterm"}
          THEN health' = Aborted(health) /\ abortCalls' = abortCalls + 1
          ELSE health' = health /\ abortCalls' = abortCalls
    /\ result' = "Ok"
    /\ pc' = "returned"
    /\ UNCHANGED nonRunnerVars
    /\ UNCHANGED <<adapter, mode, withHealth, addrParses, push, initOutcome,
                   runState, runCalls, ctrlC, sigTerm, trigger, shutdownCalls,
                   shutdownOutcome, exitCode>>

\* main after runner.serve().await: the process ends.
MainExits ==
    /\ pc \in {"returned", "panicked"}
    /\ exitCode' = ExitCodeOf(result)
    /\ pc' = "exited"
    /\ UNCHANGED nonRunnerVars
    /\ UNCHANGED <<adapter, mode, withHealth, addrParses, push, health,
                   abortCalls, initOutcome, runState, runCalls, ctrlC, sigTerm,
                   trigger, shutdownCalls, shutdownOutcome, result>>

RunnerNext ==
    \/ ServeStart
    \/ PushCompletes
    \/ SpawnHealth
    \/ HealthTaskEnds
    \/ ServeInit
    \/ RunStarts
    \/ RunEnds
    \/ CtrlCArrives
    \/ SigTermArrives
    \/ RunFinishedBranch
    \/ HealthEndedBranch
    \/ CtrlCBranch
    \/ SigTermBranch
    \/ ShutdownReturns
    \/ BranchCompletes
    \/ MainExits

Next == RunnerNext

Spec == Init /\ [][Next]_vars

(***************************************************************************)
(* Properties of the lifecycle, checked under Spec.                        *)
(***************************************************************************)
Signals == {"ctrlc", "sigterm"}
ShutdownTriggers == {"health", "ctrlc", "sigterm"}

\* C1: whatever the order in which run completion, health-task termination,
\* Ctrl+C and SIGTERM occur, shutdown is invoked at most once.
C1_ShutdownAtMostOnce == shutdownCalls <= 1

\* C1 witness: shutdown has run once although every branch of select! was
\* ready (run returned, health task finished, both signals pending).
C1_Witness ==
    /\ pc = "returned"
    /\ shutdownCalls = 1
    /\ ctrlC /\ sigTerm
    /\ health = "finished"
    /\ runState \in {"returnedOk", "returnedErr"}

\* C2 as claimed: whenever init succeeded and serve returns, shutdown has been
\* invoked exactly once, also when run returned on its own.
C2_ExactlyOnceOnEveryReturn ==
    (pc = "returned" /\ initOutcome = "Ok") => shutdownCalls = 1

\* C2 amended: when init succeeded and serve returns because the health task
\* ended or Ctrl+C/SIGTERM arrived, shutdown has been invoked exactly once;
\* when serve returns because run returned on its own, shutdown has not been
\* invoked.
C2_ExactlyOnceOnTrigger ==
    (pc = "returned" /\ initOutcome = "Ok") =>
        /\ trigger \in ShutdownTriggers \cup {"run"}
        /\ trigger \in ShutdownTriggers => shutdownCalls = 1
        /\ trigger = "run" => shutdownCalls = 0

\* C2 witness: serve has returned after SIGTERM with one shutdown call.
C2_Witness ==
    pc = "returned" /\ trigger = "sigterm" /\ shutdownCalls = 1

\* C3: with the health service enabled, a signal makes serve run shutdown to
\* completion and then abort the health task, whatever shutdown returns; when
\* the health task ends first, shutdown is called; on every such exit the
\* health task has been aborted or has finished.
C3_ShutdownThenAbort ==
    /\ (pc = "shutdown" /\ trigger \in Signals) => abortCalls = 0
    /\ (pc = "returned" /\ health # "none" /\ trigger \in Signals
          /\ runCalls = 1) =>
          shutdownCalls = 1 /\ abortCalls = 1
    /\ (pc = "returned" /\ health # "none" /\ trigger = "health") =>
          shutdownCalls = 1
    /\ (pc = "returned" /\ health # "none" /\ trigger \in ShutdownTriggers) =>
          health \in {"aborted", "finished"}

\* C4: an Err returned by shutdown is only logged: serve still returns Ok.
C4_ShutdownErrNotFatal ==
    (pc = "returned" /\ shutdownOutcome = "Err") => result = "Ok"

\* C5: for the HTTP adapter, a SIGINT during run leads to exactly one shutdown
\* that completes normally, serve returns Ok and the process exits with 0.
C5_HttpGracefulSigint ==
    (adapter = "Http" /\ runCalls = 1 /\ trigger = "ctrlc" /\ pc = "exited") =>
        /\ shutdownCalls = 1
        /\ shutdownOutcome = "Ok"
        /\ result = "Ok"
        /\ exitCode = 0

\* C6: if init returns an error, serve returns that error and neither run nor
\* shutdown is ever invoked; run is only started after init returned Ok.
C6_InitErrorIsFatal ==
    /\ initOutcome = "Err" =>
          /\ pc \in {"returned", "exited"}
          /\ result = "ErrInit"
          /\ runCalls = 0 /\ runState = "unstarted"
          /\ shutdownCalls = 0
    /\ (runCalls > 0 \/ runState # "unstarted") => initOutcome = "Ok"

\* C6 witness: the process has ended after init failed.
C6_Witness == initOutcome = "Err" /\ pc = "exited" /\ result = "ErrInit"

\* C7: if run returns on its own, serve returns run's result (Err propagated,
\* Ok gives Ok) and the health task, if started, is aborted before serve
\* returns.
C7_RunResultPropagated ==
    (pc = "returned" /\ trigger = "run") =>
        /\ runState = "returnedOk" => result = "Ok"
        /\ runState = "returnedErr" => result = "ErrRun"
        /\ health # "none" =>
              abortCalls = 1 /\ health \in {"aborted", "finished"}

\* C7 witness: run returned Err with a running health task.
C7_Witness ==
    /\ pc = "returned" /\ trigger = "run"
    /\ runState = "returnedErr" /\ result = "ErrRun"
    /\ health = "aborted"

\* C8: in static mode serve never contacts the control plane; otherwise the
\* definition push has completed before the health task is started and before
\* init is called.
C8_PushBeforeHealthAndInit ==
    /\ is_static => push = "none"
    /\ (~is_static /\ (health # "none" \/ initOutcome # "none")) =>
          push \in {"sent", "failed"}

\* C8 witness: not static, the push failed, the health task runs and init has
\* returned.
C8_Witness ==
    /\ ~is_static /\ push = "failed"
    /\ health = "running" /\ initOutcome = "Ok"

\* C37: run and shutdown never execute at the same time: once a shutdown
\* trigger has won the race, run is cancelled before shutdown starts, takes
\* no further step and is never resumed.
C37_RunCancelledBeforeShutdown ==
    [][ /\ shutdownCalls' >= 1 => runState' # "running"
        /\ shutdownCalls >= 1 => (runState' = runState /\ runCalls' = runCalls)
      ]_vars

\* C37 witness: a signal won the race while run was in progress, and
\* shutdown is executing with run cancelled.
C37_Witness ==
    /\ pc = "shutdown"
    /\ trigger \in Signals
    /\ runCalls = 1
    /\ runState = "cancelled"

(***************************************************************************)
(* AdapterStore::is_matching_key.  Strings are sequences of characters;    *)
(* "." separates the segments and a segment that is exactly "*" is the     *)
(* wildcard.                                                               *)
(***************************************************************************)
Chars == {"A", "B", "*", "."}
MaxPatternLen == 3
MaxKeyLen == 5

Strings(n) == UNION {[1..m -> Chars] : m \in 0..n}

Min(a, b) == IF a <= b THEN a ELSE b

\* str::split("."): one segment more than there are dots; "" gives [""].
RECURSIVE Split(_)
Split(s) ==
    IF s = <<>>
       THEN << <<>> >>
       ELSE LET rest == Split(Tail(s))
            IN  IF Head(s) = "."
                   THEN << <<>> >> \o rest
                   ELSE << <<Head(s)>> \o Head(rest) >> \o Tail(rest)

\* Iterator::zip: pairs up to the end of the shorter sequence.
Zip(a, b) == [i \in 1..Min(Len(a), Len(b)) |-> <<a[i], b[i]>>]

\* The for loop over the zipped segments, from pair i on.
RECURSIVE MatchLoop(_, _)
MatchLoop(z, i) ==
    IF i > Len(z)
       THEN TRUE
       ELSE IF z[i][1] = <<"*">>
               THEN MatchLoop(z, i + 1)
               ELSE IF z[i][1] # z[i][2]
                       THEN FALSE
                       ELSE MatchLoop(z, i + 1)

\* Defective variant of is_matching_key: patterns and keys of different
\* segment counts never match.
is_matching_key_same_count(p, k) ==
    /\ Len(Split(p)) = Len(Split(k))
    /\ MatchLoop(Zip(Split(p), Split(k)), 1)

is_matching_key(p, k) == MatchLoop(Zip(Split(p), Split(k)), 1)

MatchInit ==
    /\ RunnerIdle /\ RegistryIdle /\ ScanIdle /\ DispatchIdle /\ HttpIdle /\ CronIdle /\ VerifyIdle /\ PathIdle
    /\ pattern \in Strings(MaxPatternLen)
    /\ key \in Strings(MaxKeyLen)
    /\ matched = "none"

\* One call is_matching_key(&pattern, &key).
IsMatchingKeyCall ==
    /\ matched = "none"
    /\ matched' = IF is_matching_key(pattern, key) THEN "true" ELSE "false"
    /\ UNCHANGED <<pattern, key>>
    /\ UNCHANGED nonMatchVars

MatchNext == IsMatchingKeyCall

SpecMatch == MatchInit /\ [][MatchNext]_vars

(***************************************************************************)
(* Properties of is_matching_key, checked under SpecMatch.                 *)
(***************************************************************************)
Star == <<"*">>
Last(q) == q[Len(q)]

\* Segment i of the pattern is the wildcard or equals segment i of the key.
Agrees(P, K, i) == P[i] = Star \/ P[i] = K[i]

\* C9: is_matching_key returns true only if pattern and key have the same
\* number of segments or the pattern's final segment is `*` covering the rest
\* of the key; a shorter pattern without trailing `*` and a longer pattern do
\* not match.
C9_MatchOnlyOnEqualCountOrTrailingStar ==
    matched = "true" =>
        LET P == Split(pattern)
            K == Split(key)
        IN  \/ Len(P) = Len(K)
            \/ Len(P) < Len(K) /\ Last(P) = Star

\* C10: with equal segment counts is_matching_key is true exactly when every
\* pattern segment is `*` or equals the key segment at its position; and a
\* pattern ending in `*` matches every key that agrees with it on the
\* preceding segments and has at least as many segments.
C10_SegmentwiseAndTrailingStar ==
    matched # "none" =>
        LET P == Split(pattern)
            K == Split(key)
        IN  /\ Len(P) = Len(K) =>
                  (matched = "true" <=> \A i \in 1..Len(P) : Agrees(P, K, i))
            /\ ( /\ Last(P) = Star
                 /\ Len(P) <= Len(K)
                 /\ \A i \in 1..(Len(P) - 1) : Agrees(P, K, i) ) =>
                  matched = "true"

\* C10 witness: pattern A.* has matched key A.B.A, which has more segments.
C10_Witness ==
    /\ pattern = <<"A", ".", "*">>
    /\ key = <<"A", ".", "B", ".", "A">>
    /\ matched = "true"

(***************************************************************************)
(* The flow registry: a key-value bucket.  Keys are dot-separated strings, *)
(* values are the encodings of ValidationFlows or bytes that do not        *)
(* decode.  The adapters read it; other processes write it.                *)
(***************************************************************************)
Rest == <<"R", "E", "S", "T">>
Dot == <<".">>

\* The key shape REST.<slug>.<flow-id>.
RestKey(slug, id) == Rest \o Dot \o slug \o Dot \o id

RegistryKeys ==
    { RestKey(<<"a">>, <<"1">>), RestKey(<<"a">>, <<"2">>),
      RestKey(<<"b">>, <<"1">>) }

\* The flows the registry can hold.
RegistryFlows == {"F1", "F2"}

\* prost::Message encoding of a flow, and bytes that are no encoding.
Enc(f) == <<"flow", f>>
Junk == <<"junk">>
StoredValues == {Enc(f) : f \in RegistryFlows} \cup {Junk}

\* ValidationFlow::decode(bytes): Ok(flow) or Err; on Err there is no flow,
\* written "none".
Decode(bytes) ==
    IF bytes[1] = "flow"
       THEN [ok |-> TRUE, flow |-> bytes[2]]
       ELSE [ok |-> FALSE, flow |-> "none"]

\* kv.get(key) failing with a transport error.
FetchErr == <<"error">>

\* Number of writes registry writers do while a scan runs.
MaxWrites == 1

\* A scan is between its call and its return.
ScanRunning == scanPc \in {"open", "next", "fetch"}

\* Another process puts value v at key k.  A key that was not there when the
\* key stream was opened may or may not be delivered by the stream.
RegistryPut ==
    /\ ScanRunning
    /\ writes < MaxWrites
    /\ \E k \in RegistryKeys, v \in StoredValues :
          /\ registry' = [registry EXCEPT ![k] = v]
          /\ IF scanPc # "open" /\ k \notin snapshot /\ registry[k] = NoValue
                THEN /\ pending' \in {pending, pending \cup {k}}
                     /\ lateKeys' = lateKeys \cup {k}
                ELSE pending' = pending /\ lateKeys' = lateKeys
    /\ writes' = writes + 1
    /\ UNCHANGED <<scanPattern, accept, scanPc, cur, collector, provenance,
                   fetchLog, snapshot, passed, scanErr, scanResult>>
    /\ UNCHANGED <<runnerVars, matchVars, dispatchVars, httpVars, cronVars,
                   verifyVars, pathVars>>

\* Another process deletes key k.
RegistryDelete ==
    /\ ScanRunning
    /\ writes < MaxWrites
    /\ \E k \in RegistryKeys :
          /\ registry[k] # NoValue
          /\ registry' = [registry EXCEPT ![k] = NoValue]
    /\ writes' = writes + 1
    /\ UNCHANGED <<runnerVars, matchVars, scanVars, dispatchVars, httpVars, cronVars,
                   verifyVars, pathVars>>

(***************************************************************************)
(* AdapterStore::get_possible_flow_match, store.rs lines 62-99.            *)
(***************************************************************************)
None == [kind |-> "None", flows |-> <<>>]

\* match collector.len() { 0 => None, 1 => Single(collector[0]), _ => Multiple }
Classify(c) ==
    CASE Len(c) = 0 -> None
      [] Len(c) = 1 -> [kind |-> "Single", flows |-> <<c[1]>>]
      [] OTHER      -> [kind |-> "Multiple", flows |-> c]

\* What the scan never touches.
nonScanVars == <<runnerVars, matchVars, registryVars, dispatchVars, httpVars, cronVars,
                   verifyVars, pathVars>>

\* self.kv.keys().await returns the key stream.
ScanOpen ==
    /\ scanPc = "open"
    /\ pending' = {k \in DOMAIN registry : registry[k] # NoValue}
    /\ snapshot' = pending'
    /\ scanPc' = "next"
    /\ UNCHANGED <<scanPattern, accept, cur, collector, provenance, fetchLog,
                   passed, scanErr, lateKeys, scanResult>>
    /\ UNCHANGED nonScanVars

\* self.kv.keys().await returns Err: return FlowIdentifyResult::None.
ScanOpenFails ==
    /\ scanPc = "open"
    /\ scanErr' = "open"
    /\ scanResult' = None
    /\ scanPc' = "done"
    /\ UNCHANGED <<scanPattern, accept, pending, cur, collector, provenance,
                   fetchLog, snapshot, passed, lateKeys>>
    /\ UNCHANGED nonScanVars

\* keys.try_next().await yields a key; the key is kept when is_matching_key
\* holds and skipped (continue) when not.
ScanYield ==
    /\ scanPc = "next"
    /\ \E k \in pending :
          /\ cur' = k
          /\ pending' = pending \ {k}
          /\ scanPc' = IF is_matching_key(scanPattern, k) THEN "fetch" ELSE "next"
    /\ UNCHANGED <<scanPattern, accept, collector, provenance, fetchLog,
                   snapshot, passed, scanErr, lateKeys, scanResult>>
    /\ UNCHANGED nonScanVars

\* keys.try_next().await returns Ok(None): the loop ends and the collector is
\* classified.
ScanStreamEnds ==
    /\ scanPc = "next"
    /\ pending = {}
    /\ scanResult' = Classify(collector)
    /\ scanPc' = "done"
    /\ UNCHANGED <<scanPattern, accept, pending, cur, collector, provenance,
                   fetchLog, snapshot, passed, scanErr, lateKeys>>
    /\ UNCHANGED nonScanVars

\* keys.try_next().await returns Err: `while let Ok(Some(key))` ends the loop
\* just as at the end of the stream.
ScanStreamFails ==
    /\ scanPc = "next"
    /\ scanErr' = "stream"
    /\ scanResult' = Classify(collector)
    /\ scanPc' = "done"
    /\ UNCHANGED <<scanPattern, accept, pending, cur, collector, provenance,
                   fetchLog, snapshot, passed, lateKeys>>
    /\ UNCHANGED nonScanVars

\* The body of the loop for a fetched value `got`: decode, identify, push.
Collects(got) ==
    /\ got \notin {FetchErr, NoValue}
    /\ Decode(got).ok
    /\ Decode(got).flow \in accept

\* Defective variant of ScanFetch: a value that cannot be fetched or decoded
\* ends the scan with what was collected so far.
ScanFetchStopsOnFailure ==
    /\ scanPc = "fetch"
    /\ \E got \in {registry[cur], FetchErr} :
          /\ fetchLog' = Append(fetchLog, [key |-> cur, got |-> got])
          /\ IF got \in {FetchErr, NoValue} \/ ~Decode(got).ok
                THEN /\ scanPc' = "done"
                     /\ scanResult' = Classify(collector)
                     /\ UNCHANGED <<passed, collector, provenance>>
                ELSE /\ scanPc' = "next"
                     /\ scanResult' = scanResult
                     /\ passed' = passed \cup {Decode(got).flow}
                     /\ collector' = IF Collects(got)
                                        THEN Append(collector, Decode(got).flow)
                                        ELSE collector
                     /\ provenance' = IF Collects(got)
                                         THEN Append(provenance,
                                                     [key |-> cur, bytes |-> got])
                                         ELSE provenance
    /\ UNCHANGED <<scanPattern, accept, pending, cur, snapshot, scanErr,
                   lateKeys>>
    /\ UNCHANGED nonScanVars

\* Defective variant of ScanFetch: undecodable entries are deleted from the
\* registry as they are met.
ScanFetchPurgesJunk ==
    /\ scanPc = "fetch"
    /\ \E got \in {registry[cur], FetchErr} :
          /\ fetchLog' = Append(fetchLog, [key |-> cur, got |-> got])
          /\ registry' = IF got \notin {FetchErr, NoValue} /\ ~Decode(got).ok
                            THEN [registry EXCEPT ![cur] = NoValue]
                            ELSE registry
          /\ IF got \in {FetchErr, NoValue} \/ ~Decode(got).ok
                THEN UNCHANGED <<passed, collector, provenance>>
                ELSE /\ passed' = passed \cup {Decode(got).flow}
                     /\ collector' = IF Collects(got)
                                        THEN Append(collector, Decode(got).flow)
                                        ELSE collector
                     /\ provenance' = IF Collects(got)
                                         THEN Append(provenance,
                                                     [key |-> cur, bytes |-> got])
                                         ELSE provenance
    /\ scanPc' = "next"
    /\ UNCHANGED <<scanPattern, accept, pending, cur, snapshot, scanErr,
                   lateKeys, scanResult, writes>>
    /\ UNCHANGED <<runnerVars, matchVars, dispatchVars, httpVars, cronVars,
                   verifyVars, pathVars>>

\* if let Ok(Some(bytes)) = self.kv.get(key).await { decode; identify; push }
\* kv.get reads the value stored at the key at this moment, finds the key
\* gone, or fails.
ScanFetch ==
    /\ scanPc = "fetch"
    /\ \E got \in {registry[cur], FetchErr} :
          /\ fetchLog' = Append(fetchLog, [key |-> cur, got |-> got])
          /\ IF got \in {FetchErr, NoValue} \/ ~Decode(got).ok
                THEN UNCHANGED <<passed, collector, provenance>>
                ELSE /\ passed' = passed \cup {Decode(got).flow}
                     /\ collector' = IF Collects(got)
                                        THEN Append(collector, Decode(got).flow)
                                        ELSE collector
                     /\ provenance' = IF Collects(got)
                                         THEN Append(provenance,
                                                     [key |-> cur, bytes |-> got])
                                         ELSE provenance
    /\ scanPc' = "next"
    /\ UNCHANGED <<scanPattern, accept, pending, cur, snapshot, scanErr,
                   lateKeys, scanResult>>
    /\ UNCHANGED nonScanVars

\* The patterns scans are called with: the HTTP shell's REST.<slug>.*, one
\* with wildcards only after the prefix, one shorter than the keys.
ScanPatterns ==
    { Rest \o Dot \o <<"a">> \o Dot \o <<"*">>,
      Rest \o Dot \o <<"*">> \o Dot \o <<"*">>,
      Rest \o Dot \o <<"b">> }

Registries == [RegistryKeys -> StoredValues \cup {NoValue}]

\* The pure predicates scans are called with, each given by the set of flows
\* it accepts: one that rejects some flow, one that accepts every flow.
Predicates == { {"F1"}, RegistryFlows }

ScanInit ==
    /\ RunnerIdle /\ MatchIdle /\ DispatchIdle /\ HttpIdle /\ CronIdle /\ VerifyIdle /\ PathIdle
    /\ registry \in Registries
    /\ writes = 0
    /\ scanPattern \in ScanPatterns
    /\ accept \in Predicates
    /\ scanPc = "open"
    /\ pending = {} /\ cur = <<>> /\ collector = <<>> /\ provenance = <<>>
    /\ fetchLog = <<>> /\ snapshot = {} /\ passed = {} /\ scanErr = "none"
    /\ lateKeys = {}
    /\ scanResult = [kind |-> "pending", flows |-> <<>>]

ScanNext ==
    \/ ScanOpen
    \/ ScanOpenFails
    \/ ScanYield
    \/ ScanStreamEnds
    \/ ScanStreamFails
    \/ ScanFetch
    \/ RegistryPut
    \/ RegistryDelete

SpecScan == ScanInit /\ [][ScanNext]_vars

(***************************************************************************)
(* The dispatcher: AdapterStore::validate_and_execute_flow, store.rs lines *)
(* 108-146, and IdentifiableAdapterStore::validate_and_execute, lib.rs     *)
(* lines 31-76.  Two calls are in progress at once.                        *)
(***************************************************************************)
Dispatchers == {"AdapterStore", "IdentifiableAdapterStore"}
Calls == {"c1", "c2"}

\* Flows by their input_type_identifier: F1 names a data type of the flow,
\* F2 names none, F3 names a data type missing from data_types.
DispatchFlows == RegistryFlows \cup {"F3"}
InputType(f) == CASE f = "F1" -> "T" [] f = "F2" -> "none" [] OTHER -> "missing"

\* input_value: None, or Some(body) with a body that satisfies the rules of
\* data type T or one that violates them.
NoInput == "no_input"
Inputs == {NoInput, "good", "bad"}

\* validator::verify_flow, lib.rs lines 15-39 of the validator crate.
verify_flow(f, body) ==
    CASE InputType(f) = "none"    -> "Ok"
      [] InputType(f) = "missing" -> "Err"
      [] OTHER                    -> IF body = "good" THEN "Ok" ELSE "Err"

\* Uuid::new_v4(): a random 122-bit identifier, taken to be one never drawn
\* before.
Uuids == {"u1", "u2", "u3"}
UsedUuids == {dUuid[c] : c \in Calls} \ {"none"}

\* The subject the request is published to.
Topic(d, u) ==
    IF d = "AdapterStore" THEN <<"execution.", u>> ELSE <<u>>

\* What client.request(...).await comes back with: a reply whose payload is a
\* Value, a reply whose payload does not decode, a transport error, a timeout.
Replies == {"value", "junk", "transport_error", "timeout"}
Values == {"response", "scalar"}

NoneValue == <<"None">>
Some(v) == <<"Some", v>>

nonDispatchVars == <<runnerVars, matchVars, registryVars, scanVars, httpVars, cronVars,
                   verifyVars, pathVars>>

\* Defective variant of DispatchValidate: the verdict of the validator is
\* ignored.
DispatchValidateIgnored(c) ==
    /\ dPc[c] = "start"
    /\ dPc' = [dPc EXCEPT ![c] =
                  IF dispatcher = "AdapterStore" THEN "alloc" ELSE "connect"]
    /\ UNCHANGED <<dispatcher, dFlow, dInput, dUuid, dReply, dResult, bus>>
    /\ UNCHANGED nonDispatchVars

\* Defective variant of DispatchValidate: the validator is consulted also
\* when the call has no input.
DispatchValidateAlways(c) ==
    /\ dPc[c] = "start"
    /\ IF verify_flow(dFlow[c], dInput[c]) = "Err"
          THEN /\ dResult' = [dResult EXCEPT ![c] = NoneValue]
               /\ dPc' = [dPc EXCEPT ![c] = "done"]
          ELSE /\ dResult' = dResult
               /\ dPc' = [dPc EXCEPT ![c] =
                             IF dispatcher = "AdapterStore" THEN "alloc"
                                                            ELSE "connect"]
    /\ UNCHANGED <<dispatcher, dFlow, dInput, dUuid, dReply, bus>>
    /\ UNCHANGED nonDispatchVars

\* if let Some(body) = input_value { verify_flow(flow, body) Err => return None }
DispatchValidate(c) ==
    /\ dPc[c] = "start"
    /\ IF dInput[c] # NoInput /\ verify_flow(dFlow[c], dInput[c]) = "Err"
          THEN /\ dResult' = [dResult EXCEPT ![c] = NoneValue]
               /\ dPc' = [dPc EXCEPT ![c] = "done"]
          ELSE /\ dResult' = dResult
               /\ dPc' = [dPc EXCEPT ![c] =
                             IF dispatcher = "AdapterStore" THEN "alloc"
                                                            ELSE "connect"]
    /\ UNCHANGED <<dispatcher, dFlow, dInput, dUuid, dReply, bus>>
    /\ UNCHANGED nonDispatchVars

\* lib.rs only: async_nats::connect("addrs").await, Err => return None.
DispatchConnect(c) ==
    /\ dPc[c] = "connect"
    /\ \E ok \in BOOLEAN :
          IF ok
             THEN /\ dPc' = [dPc EXCEPT ![c] = "alloc"]
                  /\ dResult' = dResult
             ELSE /\ dPc' = [dPc EXCEPT ![c] = "done"]
                  /\ dResult' = [dResult EXCEPT ![c] = NoneValue]
    /\ UNCHANGED <<dispatcher, dFlow, dInput, dUuid, dReply, bus>>
    /\ UNCHANGED nonDispatchVars

\* let uuid = uuid::Uuid::new_v4().to_string();
DispatchAlloc(c) ==
    /\ dPc[c] = "alloc"
    /\ \E u \in Uuids \ UsedUuids : dUuid' = [dUuid EXCEPT ![c] = u]
    /\ dPc' = [dPc EXCEPT ![c] = "request"]
    /\ UNCHANGED <<dispatcher, dFlow, dInput, dReply, dResult, bus>>
    /\ UNCHANGED nonDispatchVars

\* self.client.request(topic, bytes): the request is published.
DispatchRequest(c) ==
    /\ dPc[c] = "request"
    /\ bus' = Append(bus, [call |-> c,
                           topic |-> Topic(dispatcher, dUuid[c]),
                           flow |-> dFlow[c],
                           input |-> dInput[c]])
    /\ dPc' = [dPc EXCEPT ![c] = "waiting"]
    /\ UNCHANGED <<dispatcher, dFlow, dInput, dUuid, dReply, dResult>>
    /\ UNCHANGED nonDispatchVars

\* Defective variant of DispatchReply: a request that failed in the transport
\* is sent again.
DispatchReplyRetries(c) ==
    /\ dPc[c] = "waiting"
    /\ \E r \in Replies, v \in Values :
          /\ dReply' = [dReply EXCEPT ![c] = r]
          /\ IF r \in {"transport_error", "timeout"}
                THEN /\ dPc' = [dPc EXCEPT ![c] = "request"]
                     /\ dResult' = dResult
                ELSE /\ dPc' = [dPc EXCEPT ![c] = "done"]
                     /\ dResult' = [dResult EXCEPT ![c] =
                                       IF r = "value" THEN Some(v) ELSE NoneValue]
    /\ UNCHANGED <<dispatcher, dFlow, dInput, dUuid, bus>>
    /\ UNCHANGED nonDispatchVars

\* Defective variant of DispatchReply: a reply that does not decode is
\* returned as a default Value.
DispatchReplyDefaultValue(c) ==
    /\ dPc[c] = "waiting"
    /\ \E r \in Replies, v \in Values :
          /\ dReply' = [dReply EXCEPT ![c] = r]
          /\ dResult' = [dResult EXCEPT ![c] =
                            IF r \in {"value", "junk"} THEN Some(v) ELSE NoneValue]
    /\ dPc' = [dPc EXCEPT ![c] = "done"]
    /\ UNCHANGED <<dispatcher, dFlow, dInput, dUuid, bus>>
    /\ UNCHANGED nonDispatchVars

\* match result { Ok(message) => match Value::decode(message.payload)
\*   { Ok(value) => Some(value), Err => None }, Err => None }
DispatchReply(c) ==
    /\ dPc[c] = "waiting"
    /\ \E r \in Replies, v \in Values :
          /\ dReply' = [dReply EXCEPT ![c] = r]
          /\ dResult' = [dResult EXCEPT ![c] =
                            IF r = "value" THEN Some(v) ELSE NoneValue]
    /\ dPc' = [dPc EXCEPT ![c] = "done"]
    /\ UNCHANGED <<dispatcher, dFlow, dInput, dUuid, bus>>
    /\ UNCHANGED nonDispatchVars

Validate == \E c \in Calls : DispatchValidate(c)
Connect == \E c \in Calls : DispatchConnect(c)
Alloc == \E c \in Calls : DispatchAlloc(c)
Request == \E c \in Calls : DispatchRequest(c)
Reply == \E c \in Calls : DispatchReply(c)

DispatchInit ==
    /\ RunnerIdle /\ MatchIdle /\ RegistryIdle /\ ScanIdle /\ HttpIdle /\ CronIdle /\ VerifyIdle /\ PathIdle
    /\ dispatcher \in Dispatchers
    /\ dPc = [c \in Calls |-> "start"]
    /\ dFlow \in [Calls -> DispatchFlows]
    /\ dInput \in [Calls -> Inputs]
    /\ dUuid = [c \in Calls |-> "none"]
    /\ dReply = [c \in Calls |-> "none"]
    /\ dResult = [c \in Calls |-> <<"pending">>]
    /\ bus = <<>>

DispatchNext ==
    \/ Validate
    \/ Connect
    \/ Alloc
    \/ Request
    \/ Reply

SpecDispatch == DispatchInit /\ [][DispatchNext]_vars

(***************************************************************************)
(* Properties of get_possible_flow_match, checked under SpecScan.          *)
(***************************************************************************)
\* The match relation between a pattern and a key: segment by segment, `*`
\* for any one segment, equal segment counts unless the pattern ends in `*`
\* and is shorter than the key.
Matches(p, k) ==
    LET P == Split(p)
        K == Split(k)
    IN  /\ \/ Len(P) = Len(K)
           \/ Len(P) < Len(K) /\ Last(P) = Star
        /\ \A i \in 1..Min(Len(P), Len(K)) : Agrees(P, K, i)

\* The scan returned without any failure of the transport and while no
\* writer touched the registry.
QuietScanDone ==
    /\ scanPc = "done"
    /\ scanErr = "none"
    /\ writes = 0
    /\ \A i \in 1..Len(fetchLog) : fetchLog[i].got # FetchErr

\* The keys the returned flows were fetched from.
ReturnedKeys == {provenance[i].key : i \in 1..Len(provenance)}

\* C11: the scan returns None, Single or Multiple according to the number
\* (0, 1, more) of registry entries whose key matches the pattern, whose
\* value decodes and whose flow the predicate accepts; the result carries
\* exactly the flows of those entries, each once.
C11_ResultByNumberOfQualifyingEntries ==
    QuietScanDone =>
        LET Q == {k \in RegistryKeys : /\ Matches(scanPattern, k)
                                       /\ Decode(registry[k]).ok
                                       /\ Decode(registry[k]).flow \in accept}
        IN  /\ scanResult.kind = CASE Cardinality(Q) = 0 -> "None"
                                   [] Cardinality(Q) = 1 -> "Single"
                                   [] OTHER              -> "Multiple"
            /\ Len(scanResult.flows) = Cardinality(Q)
            /\ ReturnedKeys = Q
            /\ \A i \in 1..Len(scanResult.flows) :
                  scanResult.flows[i] = Decode(registry[provenance[i].key]).flow

\* C12: an entry that cannot be fetched or decoded is dropped and the scan
\* goes on: the keys whose flows are returned are exactly the other keys that
\* pass the filter, decode and are accepted, and nothing but a decoded flow
\* reaches the predicate or the result.
C12_FailuresDropOnlyTheirEntry ==
    /\ passed \subseteq RegistryFlows
    /\ \A i \in 1..Len(collector) :
          /\ collector[i] \in RegistryFlows
          /\ provenance[i].bytes = Enc(collector[i])
    /\ (scanPc = "done" /\ scanErr = "none" /\ writes = 0) =>
          /\ scanResult.flows = collector
          /\ ReturnedKeys =
                {k \in RegistryKeys :
                    /\ is_matching_key(scanPattern, k)
                    /\ Decode(registry[k]).ok
                    /\ Decode(registry[k]).flow \in accept
                    /\ \A i \in 1..Len(fetchLog) :
                          fetchLog[i].key = k => fetchLog[i].got # FetchErr}

\* C12 witness: a finished scan met bytes that do not decode and, at another
\* key, a fetch that failed, and returned a flow fetched after both.
C12_Witness ==
    /\ scanPc = "done" /\ scanErr = "none" /\ writes = 0
    /\ Len(fetchLog) = 3
    /\ fetchLog[1].got = Junk
    /\ fetchLog[2].got = FetchErr
    /\ scanResult.kind = "Single"
    /\ provenance[1].key = fetchLog[3].key

\* C13: when the key enumeration reports an error, on opening the stream or
\* while keys are streamed, the scan returns None.
C13_EnumerationErrorGivesNone ==
    (scanPc = "done" /\ scanErr # "none") => scanResult = None

\* C14: with writers acting during the scan, every flow returned is the
\* complete value stored, when it was fetched, at a key that matches the
\* pattern.
C14_ReturnedFlowsStoredAtMatchingKeys ==
    writes > 0 =>
        \A i \in 1..Len(collector) :
            /\ provenance[i].bytes = Enc(collector[i])
            /\ Matches(scanPattern, provenance[i].key)

(***************************************************************************)
(* Properties of the dispatcher, checked under SpecDispatch.               *)
(***************************************************************************)
\* The requests call c has published.
Published(c) == {i \in 1..Len(bus) : bus[i].call = c}

\* Call c was given an input that the validator rejects.
Rejected(c) == dInput[c] # NoInput /\ verify_flow(dFlow[c], dInput[c]) = "Err"

\* C16: a call with an input on which the validator reports violations
\* returns None and publishes no request.
C16_ValidationFailureReturnsNoneUnpublished ==
    \A c \in Calls :
        Rejected(c) =>
            /\ Published(c) = {}
            /\ dPc[c] \in {"start", "done"}
            /\ dPc[c] = "done" => dResult[c] = NoneValue

\* C16 witness: one call was rejected by the validator and has returned,
\* while the other, with a valid input, has published its request.
C16_Witness ==
    /\ Rejected("c1") /\ dPc["c1"] = "done"
    /\ dInput["c2"] = "good" /\ ~Rejected("c2") /\ Published("c2") # {}

\* C17: a call publishes at most one request, whatever comes back; a request
\* that failed is not sent again.
C17_AtMostOneRequestPerCall ==
    \A c \in Calls :
        /\ Cardinality(Published(c)) <= 1
        /\ dReply[c] # "none" => dPc[c] = "done"

\* C17 witness: both calls have returned, one after a transport error and
\* one after a timeout, each having published exactly one request.
C17_Witness ==
    /\ dPc["c1"] = "done" /\ dReply["c1"] = "transport_error"
    /\ dPc["c2"] = "done" /\ dReply["c2"] = "timeout"
    /\ Cardinality(Published("c1")) = 1
    /\ Cardinality(Published("c2")) = 1

\* C18: a call returns Some(value) only when its request got a reply that
\* decoded as a Value; a transport error, a timeout or a reply that does not
\* decode gives None.
C18_SomeOnlyOnDecodedReply ==
    \A c \in Calls :
        dPc[c] = "done" =>
            /\ dResult[c][1] = "Some" =>
                  dReply[c] = "value" /\ Published(c) # {}
            /\ dReply[c] \in {"transport_error", "timeout", "junk"} =>
                  dResult[c] = NoneValue

\* C18 witness: one call returned Some on a decoded reply, the other None on
\* a reply that did not decode.
C18_Witness ==
    /\ dPc["c1"] = "done" /\ dReply["c1"] = "value" /\ dResult["c1"][1] = "Some"
    /\ dPc["c2"] = "done" /\ dReply["c2"] = "junk" /\ dResult["c2"] = NoneValue

\* C19: every call allocates a fresh correlation identifier and publishes to
\* the topic execution.<identifier>; any two calls use distinct identifiers
\* and distinct topics.
C19_FreshIdentifierAndExecutionTopic ==
    /\ \A i \in 1..Len(bus) :
          bus[i].topic = <<"execution.", dUuid[bus[i].call]>>
    /\ \A i, j \in 1..Len(bus) :
          bus[i].call # bus[j].call => bus[i].topic # bus[j].topic
    /\ \A c, d \in Calls :
          (c # d /\ dUuid[c] # "none") => dUuid[c] # dUuid[d]

\* C39: a call of AdapterStore::validate_and_execute_flow without an input
\* does not consult the validator and always publishes its request, also
\* when the flow declares an input type, present in data_types or not.
C39_NoInputIsAlwaysPublished ==
    \A c \in Calls :
        (dispatcher = "AdapterStore" /\ dInput[c] = NoInput) =>
            /\ dPc[c] \in {"start", "alloc", "request", "waiting", "done"}
            /\ dPc[c] \in {"waiting", "done"} => Cardinality(Published(c)) = 1

\* C39 witness: a call without input for a flow whose input type is missing
\* from data_types has returned after publishing its request.
C39_Witness ==
    /\ dispatcher = "AdapterStore"
    /\ dFlow["c1"] = "F3" /\ InputType("F3") = "missing"
    /\ dInput["c1"] = NoInput
    /\ dPc["c1"] = "done"
    /\ Published("c1") # {}

(***************************************************************************)
(* The HTTP shell: handle_request and execute_flow_to_hyper_response,      *)
(* adapter/rest/src/main.rs lines 90-262.  One request is handled; its     *)
(* scan and its dispatch are the operations modelled above.                *)
(***************************************************************************)
\* extract_slug_from_path: the first path segment, None when it is empty.
NoSlug == <<>>
Slugs == {NoSlug, <<"a">>, <<"b">>}

\* The request body: unreadable, empty, bytes that are no protobuf Value, a
\* Value that satisfies data type T, a Value that violates it.
Bodies == {"read_error", "empty", "undecodable", "good", "bad"}

nonHttpVars == <<runnerVars, matchVars, registryVars, cronVars, verifyVars, pathVars>>

\* json_error(status, msg) or build_response(...) is returned.
Respond(status, msg) ==
    /\ respStatus' = status
    /\ respMsg' = msg
    /\ hPc' = "responded"

\* BodyExt::collect(req.into_body()).await; Err => 400.
HandleReadBody ==
    /\ hPc = "recv"
    /\ IF reqBody = "read_error"
          THEN Respond(400, "Failed to read request body")
          ELSE hPc' = "slug" /\ UNCHANGED <<respStatus, respMsg>>
    /\ UNCHANGED <<reqSlug, reqBody>>
    /\ UNCHANGED <<nonHttpVars, scanVars, dispatchVars>>

\* extract_slug_from_path None => 400; else pattern REST.<slug>.* and the call
\* of get_possible_flow_match(pattern, route).
HandleSlug ==
    /\ hPc = "slug"
    /\ IF reqSlug = NoSlug
          THEN /\ Respond(400, "Missing slug in path")
               /\ UNCHANGED scanVars
          ELSE /\ scanPattern' = RestKey(reqSlug, <<"*">>)
               /\ scanPc' = "open"
               /\ hPc' = "scanning"
               /\ UNCHANGED <<respStatus, respMsg>>
               /\ UNCHANGED <<accept, pending, cur, collector, provenance,
                              fetchLog, snapshot, passed, scanErr, lateKeys,
                              scanResult>>
    /\ UNCHANGED <<reqSlug, reqBody>>
    /\ UNCHANGED <<nonHttpVars, dispatchVars>>

\* Defective variant of HandleMatch: with several matching flows the first
\* one is executed.
HandleMatchFirstOfMany ==
    /\ hPc = "scanning"
    /\ scanPc = "done"
    /\ IF scanResult.kind \in {"Single", "Multiple"}
          THEN IF reqBody = "undecodable"
                  THEN /\ Respond(400, "Failed to decode request body as protobuf Value")
                       /\ UNCHANGED dispatchVars
                  ELSE /\ dPc' = [dPc EXCEPT !["c1"] = "start"]
                       /\ dFlow' = [dFlow EXCEPT !["c1"] = scanResult.flows[1]]
                       /\ dInput' = [dInput EXCEPT !["c1"] =
                                        IF reqBody = "empty" THEN NoInput
                                                             ELSE reqBody]
                       /\ hPc' = "dispatching"
                       /\ UNCHANGED <<respStatus, respMsg>>
                       /\ UNCHANGED <<dispatcher, dUuid, dReply, dResult, bus>>
          ELSE /\ Respond(404, "No flow found for path")
               /\ UNCHANGED dispatchVars
    /\ UNCHANGED <<reqSlug, reqBody>>
    /\ UNCHANGED <<nonHttpVars, scanVars>>

\* match get_possible_flow_match { Single(flow) =>
\* execute_flow_to_hyper_response, _ => 404 }.  execute_flow_to_hyper_response
\* starts: empty body => no input, undecodable body => 400, else Some(value),
\* then the call of validate_and_execute_flow.
HandleMatch ==
    /\ hPc = "scanning"
    /\ scanPc = "done"
    /\ IF scanResult.kind = "Single"
          THEN IF reqBody = "undecodable"
                  THEN /\ Respond(400, "Failed to decode request body as protobuf Value")
                       /\ UNCHANGED dispatchVars
                  ELSE /\ dPc' = [dPc EXCEPT !["c1"] = "start"]
                       /\ dFlow' = [dFlow EXCEPT !["c1"] = scanResult.flows[1]]
                       /\ dInput' = [dInput EXCEPT !["c1"] =
                                        IF reqBody = "empty" THEN NoInput
                                                             ELSE reqBody]
                       /\ hPc' = "dispatching"
                       /\ UNCHANGED <<respStatus, respMsg>>
                       /\ UNCHANGED <<dispatcher, dUuid, dReply, dResult, bus>>
          ELSE /\ Respond(404, "No flow found for path")
               /\ UNCHANGED dispatchVars
    /\ UNCHANGED <<reqSlug, reqBody>>
    /\ UNCHANGED <<nonHttpVars, scanVars>>

\* Defective variant of HandleResult: a dispatch that returned None is
\* answered like a request without a flow.
HandleResultNoneAsNotFound ==
    /\ hPc = "dispatching"
    /\ dPc["c1"] = "done"
    /\ CASE dResult["c1"] = NoneValue ->
              Respond(404, "No flow found for path")
         [] dResult["c1"] = Some("scalar") ->
              Respond(500, "Flow result was not a struct")
         [] OTHER ->
              Respond(200, "flow response")
    /\ UNCHANGED <<reqSlug, reqBody>>
    /\ UNCHANGED <<nonHttpVars, scanVars, dispatchVars>>

\* match validate_and_execute_flow { Some(result) => the flow's response or
\* 500 when it is no response struct, None => 500 }.
HandleResult ==
    /\ hPc = "dispatching"
    /\ dPc["c1"] = "done"
    /\ CASE dResult["c1"] = NoneValue ->
              Respond(500, "Flow execution failed")
         [] dResult["c1"] = Some("scalar") ->
              Respond(500, "Flow result was not a struct")
         [] OTHER ->
              Respond(200, "flow response")
    /\ UNCHANGED <<reqSlug, reqBody>>
    /\ UNCHANGED <<nonHttpVars, scanVars, dispatchVars>>

HttpInit ==
    /\ RunnerIdle /\ MatchIdle /\ CronIdle /\ VerifyIdle /\ PathIdle
    /\ registry \in Registries
    /\ writes = 0
    /\ hPc = "recv"
    /\ reqSlug \in Slugs
    /\ reqBody \in Bodies
    /\ respStatus = 0 /\ respMsg = "none"
    /\ scanPattern = <<>>
    /\ accept \in Predicates
    /\ scanPc = "idle"
    /\ pending = {} /\ cur = <<>> /\ collector = <<>> /\ provenance = <<>>
    /\ fetchLog = <<>> /\ snapshot = {} /\ passed = {} /\ scanErr = "none"
    /\ lateKeys = {}
    /\ scanResult = [kind |-> "pending", flows |-> <<>>]
    /\ dispatcher = "AdapterStore"
    /\ dPc = [c \in Calls |-> "idle"]
    /\ dFlow = [c \in Calls |-> "none"]
    /\ dInput = [c \in Calls |-> NoInput]
    /\ dUuid = [c \in Calls |-> "none"]
    /\ dReply = [c \in Calls |-> "none"]
    /\ dResult = [c \in Calls |-> <<"pending">>]
    /\ bus = <<>>

HttpNext ==
    \/ HandleReadBody
    \/ HandleSlug
    \/ ScanOpen
    \/ ScanOpenFails
    \/ ScanYield
    \/ ScanStreamEnds
    \/ ScanStreamFails
    \/ ScanFetch
    \/ HandleMatch
    \/ Validate
    \/ Alloc
    \/ Request
    \/ Reply
    \/ HandleResult

SpecHttp == HttpInit /\ [][HttpNext]_vars

(***************************************************************************)
(* Properties of the HTTP shell and of the adapter operations it is made   *)
(* of, checked under SpecHttp.                                             *)
(***************************************************************************)
\* C15: no adapter operation creates, overwrites or deletes a registry key:
\* every step of the scan, of the dispatcher and of the request handler
\* leaves the registry as it was.
C15_AdapterNeverWritesRegistry == [][registry' = registry]_vars

\* C15 witness: a request was answered from a flow's reply after a scan that
\* met an entry which does not decode, and that entry is still stored.
C15_Witness ==
    /\ hPc = "responded"
    /\ respStatus = 200
    /\ Len(bus) = 1
    /\ \E i \in 1..Len(fetchLog) :
          fetchLog[i].got = Junk /\ registry[fetchLog[i].key] = Junk

\* C20: when the matcher returns None the response status is 404, and when
\* it returns Multiple the response status is 500.
C20_NoneIs404MultipleIs500 ==
    (hPc = "responded" /\ scanPc = "done") =>
        /\ scanResult.kind = "None" => respStatus = 404
        /\ scanResult.kind = "Multiple" => respStatus = 500

\* C21: when exactly one flow matches and the request body fails validation
\* against the flow's input type, the response status is 400.
C21_ValidationFailureIs400 ==
    ( /\ hPc = "responded"
      /\ scanResult.kind = "Single"
      /\ reqBody \in {"good", "bad"}
      /\ verify_flow(scanResult.flows[1], reqBody) = "Err" ) =>
        respStatus = 400

\* C22: when exactly one flow matches, the body is valid and the bus request
\* fails or times out, the response is 500 "Flow execution failed".
C22_TransportFailureIs500 ==
    ( /\ hPc = "responded"
      /\ scanResult.kind = "Single"
      /\ reqBody \in {"empty", "good"}
      /\ dReply["c1"] \in {"transport_error", "timeout"} ) =>
        /\ respStatus = 500
        /\ respMsg = "Flow execution failed"
        /\ dResult["c1"] = NoneValue

\* C22 witness: a request with a valid body for the one matching flow was
\* published, timed out and has been answered.
C22_Witness ==
    /\ hPc = "responded"
    /\ scanResult.kind = "Single"
    /\ reqBody = "good"
    /\ verify_flow(scanResult.flows[1], reqBody) = "Ok"
    /\ Len(bus) = 1
    /\ dReply["c1"] = "timeout"

(***************************************************************************)
(* The Cron shell: Time::identify and Cron::run, adapter/cron/src/main.rs  *)
(* lines 46-121.  Time is counted in whole minutes.                        *)
(***************************************************************************)
CronWord == <<"C", "R", "O", "N">>
CronKey(id) == CronWord \o Dot \o id

\* Keys of the bucket: two of the form CRON.<flow-id> and the one-segment
\* key CRON.
CronKeys == {CronKey(<<"1">>), CronKey(<<"2">>), CronWord}

\* let pattern = "CRON.<";
CronPattern == CronWord \o Dot \o <<"<">>

\* Flows by their cron settings: all five `*`; minute `1/2` and the rest `*`;
\* one setting missing; settings that give no valid cron expression.
CronFlows == {"every", "odd", "unset", "garbled"}
Settings(f) ==
    CASE f = "unset" -> "missing" [] f = "garbled" -> "unparsable" [] OTHER -> "ok"

\* The schedule "* <minute> <hour> <dom> <month> <dow>" fires at every second
\* of minute m.
FiresIn(f, m) == f = "every" \/ (f = "odd" /\ m % 2 = 1)

\* schedule.upcoming(Utc).next(): the minute of the first firing strictly
\* after the present instant, which lies in minute m; `last` says the instant
\* is in the last second of its minute.
NextFireMinute(f, m, last) ==
    CASE FiresIn(f, m) /\ ~last -> m
      [] FiresIn(f, m + 1)      -> m + 1
      [] OTHER                  -> m + 2

\* Time::identify for flows with parsable settings: self.now and the next
\* firing agree in year, month, day, hour and minute.
identify(now, f, m, last) ==
    /\ Settings(f) = "ok"
    /\ now = NextFireMinute(f, m, last)

\* Number of ticks the run loop goes through.
MaxTicks == 2

nonCronVars == <<runnerVars, matchVars, registryVars, dispatchVars, httpVars,
                 verifyVars, pathVars>>

\* let now = Utc::now(); schedule.upcoming(Utc).take(1).next()
CronLoopTop ==
    /\ cPc = "loop"
    /\ cTicks < MaxTicks
    /\ cNow' = clock
    /\ cPc' = "sleeping"
    /\ UNCHANGED <<clock, cTicks, cQueue>>
    /\ UNCHANGED <<nonCronVars, scanVars>>

\* tokio::time::sleep(until_next) returns at the next minute boundary (or a
\* minute later, when the boundary was passed between reading `now` and
\* computing `next`); let time = Time { now }; get_possible_flow_match is
\* called with the pattern and with time as the predicate.
CronWake ==
    /\ cPc = "sleeping"
    /\ \E d \in {1, 2}, last \in BOOLEAN :
          /\ clock' = cNow + d
          /\ accept' = {f \in CronFlows : identify(cNow, f, clock', last)}
    /\ scanPattern' = CronPattern
    /\ scanPc' = "open"
    /\ pending' = {} /\ cur' = <<>> /\ collector' = <<>> /\ provenance' = <<>>
    /\ fetchLog' = <<>> /\ snapshot' = {} /\ passed' = {} /\ scanErr' = "none"
    /\ lateKeys' = {}
    /\ scanResult' = [kind |-> "pending", flows |-> <<>>]
    /\ cTicks' = cTicks + 1
    /\ cPc' = "scanning"
    /\ UNCHANGED <<cNow, cQueue>>
    /\ UNCHANGED nonCronVars

\* The value at the current key decodes to a flow on which Time::identify
\* panics: Schedule::from_str(expression).unwrap().
IdentifyPanics ==
    /\ Decode(registry[cur]).ok
    /\ Settings(Decode(registry[cur]).flow) = "unparsable"

\* The loop body of the scan with Time as the predicate, when identify
\* returns.
CronScanFetch ==
    /\ ScanFetch
    /\ fetchLog'[Len(fetchLog')].got = FetchErr \/ ~IdentifyPanics

\* The loop body of the scan with Time as the predicate, when identify
\* panics: the panic unwinds through the scan and through run.
CronScanPanics ==
    /\ cPc = "scanning"
    /\ scanPc = "fetch"
    /\ IdentifyPanics
    /\ cPc' = "panicked"
    /\ scanPc' = "unwound"
    /\ UNCHANGED <<clock, cNow, cTicks, cQueue>>
    /\ UNCHANGED <<scanPattern, accept, pending, cur, collector, provenance,
                   fetchLog, snapshot, passed, scanErr, lateKeys, scanResult>>
    /\ UNCHANGED nonCronVars

\* match get_possible_flow_match { None => {}, Single(flow) => dispatch it,
\* Multiple(flows) => dispatch each }: the flows are handed to
\* validate_and_execute_flow(flow, None).
CronMatch ==
    /\ cPc = "scanning"
    /\ scanPc = "done"
    /\ cQueue' = scanResult.flows
    /\ cPc' = IF scanResult.kind = "None" THEN "loop" ELSE "dispatch"
    /\ UNCHANGED <<clock, cNow, cTicks>>
    /\ UNCHANGED <<nonCronVars, scanVars>>

CronRegistries == [CronKeys -> {Enc(f) : f \in CronFlows} \cup {NoValue}]

CronInit ==
    /\ RunnerIdle /\ MatchIdle /\ DispatchIdle /\ HttpIdle /\ VerifyIdle /\ PathIdle
    /\ ScanIdle
    /\ registry \in CronRegistries
    /\ writes = 0
    /\ cPc = "loop"
    /\ clock \in {0, 1}
    /\ cNow = 0
    /\ cTicks = 0
    /\ cQueue = <<>>

CronNext ==
    \/ CronLoopTop
    \/ CronWake
    \/ ScanOpen
    \/ ScanOpenFails
    \/ ScanYield
    \/ ScanStreamEnds
    \/ ScanStreamFails
    \/ CronScanFetch
    \/ CronScanPanics
    \/ CronMatch

SpecCron == CronInit /\ [][CronNext]_vars

(***************************************************************************)
(* Properties of the Cron shell, checked under SpecCron.                   *)
(***************************************************************************)
\* A tick has been handled: its scan returned without failure of the
\* transport and its result was matched.
CronTickHandled ==
    /\ cPc \in {"loop", "dispatch"}
    /\ cTicks > 0
    /\ scanErr = "none"
    /\ \A i \in 1..Len(fetchLog) : fetchLog[i].got # FetchErr

\* C23: at a tick every flow stored under a key CRON.<flow-id> whose cron
\* settings fire at that tick is matched and dispatched once without input;
\* with two flows firing every minute at CRON.1 and CRON.2 the matcher
\* returns Multiple of both and both are dispatched.
C23_FiringCronFlowsAreDispatched ==
    ( /\ CronTickHandled
      /\ registry[CronKey(<<"1">>)] = Enc("every")
      /\ registry[CronKey(<<"2">>)] = Enc("every") ) =>
        /\ scanResult.kind = "Multiple"
        /\ \E i, j \in 1..Len(cQueue) :
              /\ i # j
              /\ provenance[i].key = CronKey(<<"1">>)
              /\ provenance[j].key = CronKey(<<"2">>)

\* C24: the predicate of a tick is true exactly for the flows whose cron
\* expression fires in the minute in which the scan runs.
C24_PredicateTrueForFlowsFiringNow ==
    cPc = "scanning" =>
        accept = {f \in CronFlows : Settings(f) = "ok" /\ FiresIn(f, clock)}

\* C25: no failure while a tick is handled ends the run loop: the adapter
\* stays in run.
C25_TickFailuresKeepRunLoop == cPc # "panicked"

(***************************************************************************)
(* The dispatch arms of Cron::run, cron/src/main.rs lines 96-118, on each  *)
(* result get_possible_flow_match can hand them.                           *)
(***************************************************************************)
\* A call of validate_and_execute_flow that has not returned.
InFlight == {c \in Calls : dPc[c] \notin {"idle", "done"}}

\* Defective variant of CronDispatchStart: each flow is handed to a task of
\* its own, without waiting for the previous dispatch.
CronDispatchSpawns(c) ==
    /\ cPc = "dispatch"
    /\ cQueue # <<>>
    /\ dPc[c] = "idle"
    /\ dPc' = [dPc EXCEPT ![c] = "start"]
    /\ dFlow' = [dFlow EXCEPT ![c] = Head(cQueue)]
    /\ dInput' = [dInput EXCEPT ![c] = NoInput]
    /\ cQueue' = Tail(cQueue)
    /\ UNCHANGED <<cPc, clock, cNow, cTicks>>
    /\ UNCHANGED <<dispatcher, dUuid, dReply, dResult, bus>>
    /\ UNCHANGED <<runnerVars, matchVars, registryVars, scanVars, httpVars,
                   verifyVars, pathVars>>

\* ctx.adapter_store.validate_and_execute_flow(flow, None).await for the
\* next flow: the call before it, if any, has returned.
CronDispatchStart(c) ==
    /\ cPc = "dispatch"
    /\ cQueue # <<>>
    /\ InFlight = {}
    /\ dPc[c] = "idle"
    /\ dPc' = [dPc EXCEPT ![c] = "start"]
    /\ dFlow' = [dFlow EXCEPT ![c] = Head(cQueue)]
    /\ dInput' = [dInput EXCEPT ![c] = NoInput]
    /\ cQueue' = Tail(cQueue)
    /\ UNCHANGED <<cPc, clock, cNow, cTicks>>
    /\ UNCHANGED <<dispatcher, dUuid, dReply, dResult, bus>>
    /\ UNCHANGED <<runnerVars, matchVars, registryVars, scanVars, httpVars,
                   verifyVars, pathVars>>

\* The last call has returned: the match is left and the loop starts over.
CronDispatchDone ==
    /\ cPc = "dispatch"
    /\ cQueue = <<>>
    /\ InFlight = {}
    /\ cPc' = "loop"
    /\ UNCHANGED <<clock, cNow, cTicks, cQueue>>
    /\ UNCHANGED <<nonCronVars, scanVars>>

CronStart == \E c \in Calls : CronDispatchStart(c)

\* The results of a scan: no flow, one flow, two flows.
CronResults ==
    {[kind |-> "None", flows |-> <<>>]}
        \cup {[kind |-> "Single", flows |-> <<f>>] : f \in CronFlows}
        \cup {[kind |-> "Multiple", flows |-> <<p[1], p[2]>>] :
                 p \in {q \in CronFlows \X CronFlows : q[1] # q[2]}}

CronDispatchInit ==
    /\ RunnerIdle /\ MatchIdle /\ RegistryIdle /\ HttpIdle /\ VerifyIdle
    /\ PathIdle
    /\ cPc = "scanning"
    /\ clock = 1 /\ cNow = 0 /\ cTicks = 1
    /\ cQueue = <<>>
    /\ scanPattern = CronPattern
    /\ accept = {}
    /\ scanPc = "done"
    /\ scanResult \in CronResults
    /\ collector = scanResult.flows
    /\ pending = {} /\ cur = <<>> /\ provenance = <<>>
    /\ fetchLog = <<>> /\ snapshot = {} /\ passed = {} /\ scanErr = "none"
    /\ lateKeys = {}
    /\ dispatcher = "AdapterStore"
    /\ dPc = [c \in Calls |-> "idle"]
    /\ dFlow = [c \in Calls |-> "none"]
    /\ dInput = [c \in Calls |-> NoInput]
    /\ dUuid = [c \in Calls |-> "none"]
    /\ dReply = [c \in Calls |-> "none"]
    /\ dResult = [c \in Calls |-> <<"pending">>]
    /\ bus = <<>>

CronDispatchNext ==
    \/ CronMatch
    \/ CronStart
    \/ Validate
    \/ Alloc
    \/ Request
    \/ Reply
    \/ CronDispatchDone

SpecCronDispatch == CronDispatchInit /\ [][CronDispatchNext]_vars

\* C36: the flows of a Multiple result are dispatched one after another: a
\* dispatch starts only after the previous one has returned, so the Cron
\* adapter never has more than one request outstanding on the bus.
C36_CronDispatchesSequentially ==
    /\ Cardinality(InFlight) <= 1
    /\ Cardinality({c \in Calls : dPc[c] = "waiting"}) <= 1
    /\ \A i \in 1..Len(bus) :
          dPc[bus[i].call] = "waiting" =>
              \A j \in 1..Len(bus) : j # i => dPc[bus[j].call] = "done"

\* C36 witness: a Multiple result of two flows: the first dispatch has
\* returned and the request of the second is outstanding.
C36_Witness ==
    /\ scanResult.kind = "Multiple"
    /\ Len(bus) = 2
    /\ bus[1].flow = scanResult.flows[1]
    /\ bus[2].flow = scanResult.flows[2]
    /\ dPc[bus[1].call] = "done"
    /\ dPc[bus[2].call] = "waiting"

(***************************************************************************)
(* The validator: crates/validator/src/lib.rs and rules/*.rs.  Values,     *)
(* violations and the rules that look at one value only.                   *)
(***************************************************************************)
\* tucana Value: kind is None or one of Null, Number, String, Bool, Struct,
\* List.  Strings are sequences of characters, struct keys too.
NoKind == [kind |-> "None"]
NullV == [kind |-> "Null"]
Num(n) == [kind |-> "Number", n |-> n]
Str(s) == [kind |-> "String", s |-> s]
BoolV(b) == [kind |-> "Bool", b |-> b]
ListV(vs) == [kind |-> "List", values |-> vs]
StructV(fs) == [kind |-> "Struct", fields |-> fs]

\* A DataTypeRuleViolation: its variant and the string it carries.
Violation(type, detail) == <<type, detail>>

\* Result<(), DataTypeRuleError>: Ok(()) has no violations, Err carries at
\* least one; a panic inside the validator gives no result at all.
Ok == [panic |-> FALSE, violations |-> <<>>]
Err(vs) == [panic |-> FALSE, violations |-> vs]
Panic == [panic |-> TRUE, violations |-> <<>>]
is_ok(r) == ~r.panic /\ r.violations = <<>>

\* Largest number among the input values.
MaxNum == 6

\* n.to_string() for the whole numbers 0..9.
Digits == <<"0", "1", "2", "3", "4", "5", "6", "7", "8", "9">>
DigitChars == {Digits[i] : i \in 1..10}
LowerChars == {"a", "b", "e", "f", "l", "n", "r", "s", "t", "u"}
NumberToString(n) == <<Digits[n + 1]>>

\* The regex patterns rules carry: one digit, lower-case letters, and a
\* pattern that regex::Regex::new rejects.
OneDigit == "^[0-9]$"
Letters == "^[a-z]+$"
BadPattern == "("
regex_new_ok(p) == p \in {OneDigit, Letters}
is_match(p, s) ==
    IF p = OneDigit
       THEN Len(s) = 1 /\ s[1] \in DigitChars
       ELSE Len(s) >= 1 /\ \A i \in 1..Len(s) : s[i] \in LowerChars

\* Defective variant of apply_number_range: a step of 0 is not skipped, and
\* no number is a multiple of it.
apply_number_range_zero_step(rule, body) ==
    CASE body.kind = "None" -> Ok
      [] body.kind # "Number" ->
            Err(<<Violation("RegexTypeNotAccepted", body.kind)>>)
      [] body.n < rule.from \/ body.n > rule.to ->
            Err(<<Violation("NumberInRange", "value")>>)
      [] rule.steps = <<>> -> Ok
      [] rule.steps[1] = 0 -> Err(<<Violation("NumberInRange", "value")>>)
      [] body.n % rule.steps[1] # 0 ->
            Err(<<Violation("NumberInRange", "value")>>)
      [] OTHER -> Ok

\* apply_number_range(rule, body, "value"); rule.steps is <<>> for None and
\* <<m>> for Some(m).
apply_number_range(rule, body) ==
    CASE body.kind = "None" -> Ok
      [] body.kind # "Number" ->
            Err(<<Violation("RegexTypeNotAccepted", body.kind)>>)
      [] body.n < rule.from \/ body.n > rule.to ->
            Err(<<Violation("NumberInRange", "value")>>)
      [] rule.steps = <<>> -> Ok
      [] rule.steps[1] = 0 -> Ok
      [] body.n % rule.steps[1] # 0 ->
            Err(<<Violation("NumberInRange", "value")>>)
      [] OTHER -> Ok

\* apply_item_of_collection(rule, body, "key")
apply_item_of_collection(rule, body) ==
    IF body \notin rule.items
       THEN Err(<<Violation("ItemOfCollection", "key")>>)
       ELSE Ok

\* Defective variant of RegexSubject: only a String is matched as it is, any
\* other value is matched as the empty string.
RegexSubjectStringsOnly(body) ==
    IF body.kind = "String" THEN body.s ELSE <<>>

\* The string a Regex rule matches against, for the kinds it converts.
RegexSubject(body) ==
    CASE body.kind = "Bool" ->
            IF body.b THEN <<"t", "r", "u", "e">> ELSE <<"f", "a", "l", "s", "e">>
      [] body.kind = "Number" -> NumberToString(body.n)
      [] body.kind = "String" -> body.s
      [] OTHER -> <<"n", "u", "l", "l">>

\* apply_regex(rule, body); Regex::new(pattern).unwrap() panics on a pattern
\* that does not compile.
apply_regex(rule, body) ==
    CASE body.kind = "None" -> Ok
      [] body.kind \in {"Struct", "List"} ->
            Err(<<Violation("RegexTypeNotAccepted", body.kind)>>)
      [] ~regex_new_ok(rule.pattern) -> Panic
      [] ~is_match(rule.pattern, RegexSubject(body)) ->
            Err(<<Violation("Regex", rule.pattern)>>)
      [] OTHER -> Ok

(***************************************************************************)
(* The validator: data types, the rules that recurse through data_types,   *)
(* verify_data_type_rules and verify_flow.                                 *)
(***************************************************************************)
\* get_data_type_by_id / .find(|dt| dt.identifier == id): the first data type
\* with the identifier.
HasType(types, id) == \E i \in 1..Len(types) : types[i].identifier = id
get_data_type_by_id(types, id) ==
    types[CHOOSE i \in 1..Len(types) :
              /\ types[i].identifier = id
              /\ \A j \in 1..(i - 1) : types[j].identifier # id]

\* expect_kind(path, value): the value at the dotted path, NoKind for None.
RECURSIVE ExpectKindAt(_, _)
ExpectKindAt(items, value) ==
    CASE value.kind # "Struct" -> NoKind
      [] items[1] \notin DOMAIN value.fields -> NoKind
      [] Len(items) = 1 -> value.fields[items[1]]
      [] OTHER -> ExpectKindAt(Tail(items), value.fields[items[1]])
expect_kind(path, value) == ExpectKindAt(Split(path), value)

\* Identifiers are sequences of characters.  A rule's data_type_identifier
\* may be absent or a generic key; a flow's input_type_identifier may be None.
AbsentId == <<"#absent">>
GenericId == <<"#generic">>
NoInputType == <<"#none">>

\* The head of apply_contains_type and apply_contains_key: the rule's
\* data_type_identifier is absent, generic, or names a data type.
IdentifierError(rule) ==
    CASE rule.id = AbsentId ->
            Err(<<Violation("DataTypeIdentifierNotPresent", "identifier")>>)
      [] rule.id = GenericId ->
            Err(<<Violation("GenericKeyNotAllowed", "identifier")>>)
      [] OTHER -> Ok

RECURSIVE verify_data_type_rules(_, _, _)

\* for value in list.values { match verify_data_type_rules(value, ..)
\*   { Ok => {}, Err(errors) => rule_errors = Some(errors) } }
RECURSIVE ElementsLoop(_, _, _, _, _)
ElementsLoop(values, dt, types, i, rule_errors) ==
    IF i > Len(values)
       THEN rule_errors
       ELSE LET r == verify_data_type_rules(values[i], dt, types)
            IN  IF r.panic
                   THEN Panic
                   ELSE ElementsLoop(values, dt, types, i + 1,
                                     IF is_ok(r) THEN rule_errors ELSE r)

\* apply_contains_type(rule, available_data_types, body)
apply_contains_type(rule, types, body) ==
    CASE ~is_ok(IdentifierError(rule)) -> IdentifierError(rule)
      [] body.kind = "List" /\ HasType(types, rule.id) ->
            ElementsLoop(body.values, get_data_type_by_id(types, rule.id),
                         types, 1, Ok)
      [] body.kind = "List" -> Ok
      [] OTHER -> Err(<<Violation("InvalidFormat", rule.id)>>)

\* apply_contains_key(rule, body, available_data_types); the path looked up
\* is the rule's data type identifier.
apply_contains_key(rule, body, types) ==
    CASE ~is_ok(IdentifierError(rule)) -> IdentifierError(rule)
      [] body.kind # "Struct" -> Err(<<Violation("ContainsKey", rule.id)>>)
      [] expect_kind(rule.id, body) = NoKind ->
            Err(<<Violation("ContainsKey", rule.id)>>)
      [] ~HasType(types, rule.id) ->
            Err(<<Violation("MissingDataType", rule.id)>>)
      [] OTHER ->
            verify_data_type_rules(expect_kind(rule.id, body),
                                   get_data_type_by_id(types, rule.id), types)

\* match rule_config { NumberRange => .., ItemOfCollection => .., .. }
ApplyRule(rule, body, types) ==
    CASE rule.config = "NumberRange" -> apply_number_range(rule, body)
      [] rule.config = "ItemOfCollection" -> apply_item_of_collection(rule, body)
      [] rule.config = "ContainsType" -> apply_contains_type(rule, types, body)
      [] rule.config = "Regex" -> apply_regex(rule, body)
      [] rule.config = "ContainsKey" -> apply_contains_key(rule, body, types)
      [] OTHER -> Ok

\* Defective variant of RulesLoop: the loop returns at the first rule that
\* fails.
RECURSIVE RulesLoopFirstFailure(_, _, _, _, _)
RulesLoopFirstFailure(body, rules, types, i, violations) ==
    IF i > Len(rules)
       THEN violations
       ELSE LET r == ApplyRule(rules[i], body, types)
            IN  IF r.panic \/ ~is_ok(r)
                   THEN r
                   ELSE RulesLoopFirstFailure(body, rules, types, i + 1,
                                              violations)

\* for rule in data_type.rules { None => continue, Ok => continue,
\*   Err(violation) => violations.extend(violation.violations) }
RECURSIVE RulesLoop(_, _, _, _, _)
RulesLoop(body, rules, types, i, violations) ==
    IF i > Len(rules)
       THEN violations
       ELSE LET r == ApplyRule(rules[i], body, types)
            IN  IF r.panic
                   THEN Panic
                   ELSE RulesLoop(body, rules, types, i + 1,
                                  Err(violations.violations \o r.violations))

\* Defective variant of verify_data_type_rules: short-circuits.
verify_data_type_rules_short_circuit(body, dt, types) ==
    RulesLoopFirstFailure(body, dt.rules, types, 1, Ok)

\* verify_data_type_rules(body, data_type, available_data_types)
verify_data_type_rules(body, dt, types) ==
    RulesLoop(body, dt.rules, types, 1, Ok)

\* Defective variant of VerifyFlow: an absent input_type_identifier is
\* looked up like a present one.
VerifyFlowNoEarlyReturn(flow, body) ==
    IF ~HasType(flow.data_types, flow.input_type_identifier)
       THEN Err(<<Violation("DataTypeNotFound", flow.input_type_identifier)>>)
       ELSE verify_data_type_rules(
                body,
                get_data_type_by_id(flow.data_types, flow.input_type_identifier),
                flow.data_types)

\* Defective variant of VerifyFlow: when the root data type is missing, the
\* body is checked against the first data type of the flow.
VerifyFlowFallsBack(flow, body) ==
    CASE flow.input_type_identifier = NoInputType -> Ok
      [] ~HasType(flow.data_types, flow.input_type_identifier)
           /\ flow.data_types = <<>> ->
            Err(<<Violation("DataTypeNotFound", flow.input_type_identifier)>>)
      [] ~HasType(flow.data_types, flow.input_type_identifier) ->
            verify_data_type_rules(body, flow.data_types[1], flow.data_types)
      [] OTHER ->
            verify_data_type_rules(
                body,
                get_data_type_by_id(flow.data_types, flow.input_type_identifier),
                flow.data_types)

\* verify_flow(flow, body), lib.rs lines 15-39, with its report.
VerifyFlow(flow, body) ==
    CASE flow.input_type_identifier = NoInputType -> Ok
      [] ~HasType(flow.data_types, flow.input_type_identifier) ->
            Err(<<Violation("DataTypeNotFound", flow.input_type_identifier)>>)
      [] OTHER ->
            verify_data_type_rules(
                body,
                get_data_type_by_id(flow.data_types, flow.input_type_identifier),
                flow.data_types)

(***************************************************************************)
(* verify_flow applied to flows and bodies drawn from a bounded universe.  *)
(***************************************************************************)
\* Longest list among the input values.
MaxListLen == 2

NumberRange(from, to, steps) ==
    [config |-> "NumberRange", from |-> from, to |-> to, steps |-> steps]
ItemOfCollection(items) == [config |-> "ItemOfCollection", items |-> items]
ContainsType(id) == [config |-> "ContainsType", id |-> id]
ContainsKey(k, id) == [config |-> "ContainsKey", key |-> k, id |-> id]
Regex(p) == [config |-> "Regex", pattern |-> p]
NoConfig == [config |-> "None"]

DataType(id, rules) == [identifier |-> id, rules |-> rules]

\* The data types flows carry.  Small: a number in 1..5.  Nums: a list of
\* Small.  Strict: four rules on one value, one of them without config.
\* Ghosts: a list of a data type that no flow carries.  Bad: a regex that
\* does not compile.  Loop: a list of itself.  Keyed: a struct holding a
\* Small under the key S.
SmallId == <<"S">>
GoneId == <<"X">>
Small == DataType(SmallId, <<NumberRange(1, 5, <<>>)>>)
Nums == DataType(<<"L">>, <<ContainsType(SmallId)>>)
Strict ==
    DataType(<<"T">>, <<NumberRange(1, 5, <<2>>), NoConfig,
                        ItemOfCollection({Num(3), Num(4)}), Regex(Letters)>>)
Ghosts == DataType(<<"G">>, <<ContainsType(GoneId)>>)
Bad == DataType(<<"B">>, <<Regex(BadPattern)>>)
Loop == DataType(<<"O">>, <<ContainsType(<<"O">>)>>)
Keyed == DataType(<<"K">>, <<ContainsKey(<<"k">>, SmallId)>>)
\* Digit and Lower: one regex rule each.  Even: a range with step 2.  Free:
\* a range with step 0.
Digit == DataType(<<"D">>, <<Regex(OneDigit)>>)
Lower == DataType(<<"W">>, <<Regex(Letters)>>)
Even == DataType(<<"E">>, <<NumberRange(0, 5, <<2>>)>>)
Free == DataType(<<"Z">>, <<NumberRange(1, 5, <<0>>)>>)
\* Nest: a struct holding a Nest under the field named like the type.  Ping
\* and Pong: lists of each other.
Nest == DataType(<<"a">>, <<ContainsKey(<<"a">>, <<"a">>)>>)
Ping == DataType(<<"P">>, <<ContainsType(<<"Q">>)>>)
Pong == DataType(<<"Q">>, <<ContainsType(<<"P">>)>>)
AllTypes ==
    <<Small, Nums, Strict, Ghosts, Bad, Loop, Keyed, Digit, Lower, Even, Free,
      Nest, Ping, Pong>>

VerifyFlows ==
    [input_type_identifier :
        {NoInputType, GoneId} \cup {AllTypes[i].identifier : i \in 1..Len(AllTypes)},
     data_types : {AllTypes, <<Bad, Small>>, <<>>}]

SeqsUpTo(S, n) == UNION {[1..k -> S] : k \in 0..n}
Word == <<"a", "b">>
VerifyBodies ==
    {NoKind, NullV, BoolV(TRUE), BoolV(FALSE), Str(Word), Str(<<"3">>)}
        \cup {Num(n) : n \in 0..MaxNum}
        \cup {ListV(vs) : vs \in SeqsUpTo({Num(3), Num(MaxNum), Str(Word)},
                                          MaxListLen)}
        \cup {StructV([k \in {SmallId} |-> v]) : v \in {Num(3), Num(MaxNum)}}
        \cup {StructV([k \in {<<"k">>} |-> v]) : v \in {Num(3), Num(MaxNum)}}
        \cup {ListV(<<ListV(<<ListV(<<>>)>>)>>),
              StructV([k \in {<<"a">>} |-> StructV([j \in {<<"a">>} |-> Num(3)])])}

\* Defective variant of SubCalls: a ContainsType rule checks the list itself
\* against the element type.
SubCallsOnSameValue(rule, body, types) ==
    CASE rule.config = "ContainsType" /\ is_ok(IdentifierError(rule))
           /\ body.kind = "List" /\ HasType(types, rule.id) ->
            {<<body, get_data_type_by_id(types, rule.id)>>}
      [] OTHER -> {}

\* The calls of verify_data_type_rules a rule makes on a body, as pairs of
\* value and data type: one per element of the list for ContainsType
\* (contains_type.rs 83-90), one on the value at the path for ContainsKey
\* (contains_key.rs 71-100), none for the other rules.
SubCalls(rule, body, types) ==
    CASE rule.config = "ContainsType" /\ is_ok(IdentifierError(rule))
           /\ body.kind = "List" /\ HasType(types, rule.id) ->
            {<<body.values[i], get_data_type_by_id(types, rule.id)>> :
                i \in 1..Len(body.values)}
      [] rule.config = "ContainsKey" /\ is_ok(IdentifierError(rule))
           /\ body.kind = "Struct" /\ expect_kind(rule.id, body) # NoKind
           /\ HasType(types, rule.id) ->
            {<<expect_kind(rule.id, body), get_data_type_by_id(types, rule.id)>>}
      [] OTHER -> {}

\* verify_flow(flow, body) is called and returns or panics.
VerifyFlowCall ==
    /\ vResult = <<>>
    /\ vResult' = <<VerifyFlow(vFlow, vBody)>>
    /\ UNCHANGED <<vFlow, vBody>>
    /\ UNCHANGED <<runnerVars, matchVars, registryVars, scanVars, dispatchVars,
                   httpVars, cronVars, pathVars>>

VerifyInit ==
    /\ RunnerIdle /\ MatchIdle /\ RegistryIdle /\ ScanIdle /\ DispatchIdle
    /\ HttpIdle /\ CronIdle /\ PathIdle
    /\ vFlow \in VerifyFlows
    /\ vBody \in VerifyBodies
    /\ vResult = <<>>

VerifyNext == VerifyFlowCall

SpecVerify == VerifyInit /\ [][VerifyNext]_vars

(***************************************************************************)
(* draco_validator/src/path/mod.rs: dotted-path lookup in a Value.         *)
(***************************************************************************)
\* get_value(path, value): the field the path ends at, <<>> for None and
\* <<field>> for Some(field).  split(".") never gives an empty vector.
RECURSIVE GetValueAt(_, _)
GetValueAt(items, value) ==
    CASE value.kind # "Struct" -> <<>>
      [] items[1] \notin DOMAIN value.fields -> <<>>
      [] Len(items) = 1 -> <<value.fields[items[1]]>>
      [] OTHER -> GetValueAt(Tail(items), value.fields[items[1]])
get_value(path, value) == GetValueAt(Split(path), value)

\* exists_path(path, value) == get_value(path, value).is_some()
exists_path(path, value) == get_value(path, value) # <<>>

\* Longest path looked up, in characters.
MaxPathLen == 3

\* Paths over two letters and the dot; values are leaves with and without
\* kind and structs, nested up to two levels, whose field names are a, b and
\* the empty string.
PathChars == {"a", "b", "."}
Paths == UNION {[1..n -> PathChars] : n \in 0..MaxPathLen}
FieldNames == {<<"a">>, <<"b">>, <<>>}
Leaves == {Num(3), NoKind}
FlatStructs == {StructV([k \in {f} |-> l]) : f \in FieldNames, l \in Leaves}
NestedStructs ==
    {StructV([k \in {f} |-> v]) : f \in FieldNames, v \in FlatStructs}
PathValues ==
    Leaves \cup FlatStructs \cup NestedStructs
        \cup {StructV([k \in {<<"a">>, <<"b">>} |->
                          IF k = <<"a">> THEN StructV([j \in {<<"b">>} |-> Num(3)])
                                         ELSE Str(Word)])}

\* expect_kind(path, value) is called and returns.
PathExpectKind ==
    /\ pKind = <<>>
    /\ pKind' = <<expect_kind(pPath, pValue)>>
    /\ UNCHANGED <<pPath, pValue, pExists>>
    /\ UNCHANGED <<runnerVars, matchVars, registryVars, scanVars, dispatchVars,
                   httpVars, cronVars, verifyVars>>

\* exists_path(path, value) is called and returns.
PathExists ==
    /\ pExists = <<>>
    /\ pExists' = <<exists_path(pPath, pValue)>>
    /\ UNCHANGED <<pPath, pValue, pKind>>
    /\ UNCHANGED <<runnerVars, matchVars, registryVars, scanVars, dispatchVars,
                   httpVars, cronVars, verifyVars>>

PathInit ==
    /\ RunnerIdle /\ MatchIdle /\ RegistryIdle /\ ScanIdle /\ DispatchIdle
    /\ HttpIdle /\ CronIdle /\ VerifyIdle
    /\ pPath \in Paths
    /\ pValue \in PathValues
    /\ pKind = <<>>
    /\ pExists = <<>>

PathNext ==
    \/ PathExpectKind
    \/ PathExists

SpecPath == PathInit /\ [][PathNext]_vars

(***************************************************************************)
(* Properties of the path lookup, checked under SpecPath.                  *)
(***************************************************************************)
\* The field reached by descending the structs of value along the segments,
\* <<>> when a segment is absent or the descent meets a value that is not a
\* Struct.
RECURSIVE Descend(_, _)
Descend(segments, value) ==
    IF value.kind = "Struct" /\ Head(segments) \in DOMAIN value.fields
       THEN IF Len(segments) = 1
               THEN <<value.fields[Head(segments)]>>
               ELSE Descend(Tail(segments), value.fields[Head(segments)])
       ELSE <<>>

\* The path resolves: it is neither empty nor ".", and descending along its
\* segments ends at a field.
Resolves(path, value) ==
    /\ path \notin {<<>>, <<".">>}
    /\ Descend(Split(path), value) # <<>>

\* C35: expect_kind returns the kind stored at the end of the dotted path,
\* and None for an absent segment, a path through a value that is not a
\* Struct, the empty path and the path "."; exists_path is true exactly when
\* the path resolves.
C35_DottedPathLookup ==
    /\ pKind # <<>> =>
          pKind[1] = IF Resolves(pPath, pValue)
                        THEN Descend(Split(pPath), pValue)[1]
                        ELSE NoKind
    /\ pExists # <<>> => (pExists[1] <=> Resolves(pPath, pValue))

\* The same for every path but the empty path and ".".
PathLookupOfProperPaths ==
    pPath \notin {<<>>, <<".">>} => C35_DottedPathLookup

(***************************************************************************)
(* Properties of the validator, checked under SpecVerify.                  *)
(***************************************************************************)
\* verify_flow has been called and has returned or panicked.
Verified == vResult # <<>>

\* The flow names a root data type and carries it.
RootFound ==
    /\ vFlow.input_type_identifier # NoInputType
    /\ HasType(vFlow.data_types, vFlow.input_type_identifier)
Root == get_data_type_by_id(vFlow.data_types, vFlow.input_type_identifier)

\* C26: a flow without input_type_identifier verifies Ok for every input
\* value, whatever data types and rules it carries.
C26_NoInputTypeIsOk ==
    (Verified /\ vFlow.input_type_identifier = NoInputType) =>
        vResult[1] = Ok

\* C26 witness: a flow without input type that carries a data type whose
\* regex does not compile was verified against a string.
C26_Witness ==
    /\ Verified
    /\ vFlow.input_type_identifier = NoInputType
    /\ vFlow.data_types = <<Bad, Small>>
    /\ vBody = Str(Word)
    /\ vResult[1] = Ok

\* C27: when input_type_identifier names no data type of the flow, the
\* report holds exactly one violation, DataTypeNotFound with that identifier,
\* and no rule is evaluated.
C27_MissingRootTypeIsOneDataTypeNotFound ==
    ( /\ Verified
      /\ vFlow.input_type_identifier # NoInputType
      /\ ~HasType(vFlow.data_types, vFlow.input_type_identifier) ) =>
        vResult[1] =
            Err(<<Violation("DataTypeNotFound", vFlow.input_type_identifier)>>)

\* C27 witness: the flow names a data type it does not carry, while the data
\* type it carries first would reject the body, and the report is the one
\* DataTypeNotFound.
C27_Witness ==
    /\ Verified
    /\ vFlow.input_type_identifier = GoneId
    /\ vFlow.data_types = <<Bad, Small>>
    /\ vBody = Str(Word)
    /\ vResult[1] = Err(<<Violation("DataTypeNotFound", GoneId)>>)

\* The reports of the rules of a data type on a body, rule by rule, and
\* their violations in rule order.
RuleReport(i) == ApplyRule(Root.rules[i], vBody, vFlow.data_types)
RECURSIVE ViolationsFrom(_)
ViolationsFrom(i) ==
    IF i > Len(Root.rules)
       THEN <<>>
       ELSE RuleReport(i).violations \o ViolationsFrom(i + 1)

\* C28: every rule of the root data type is evaluated and the violations are
\* accumulated: when N rules fail the report has at least N violations, in
\* rule order.
C28_ViolationsAccumulateInRuleOrder ==
    (Verified /\ RootFound /\ ~vResult[1].panic) =>
        /\ Len(vResult[1].violations) >=
              Cardinality({i \in 1..Len(Root.rules) : ~is_ok(RuleReport(i))})
        /\ vResult[1].violations = ViolationsFrom(1)

\* C28 witness: three of the four rules of the root type fail on the body
\* and the report lists three violations in the order of the rules.
C28_Witness ==
    /\ Verified
    /\ RootFound
    /\ Root = Strict
    /\ vBody = Num(MaxNum)
    /\ vResult[1].violations =
          <<Violation("NumberInRange", "value"),
            Violation("ItemOfCollection", "key"),
            Violation("Regex", Letters)>>

\* The root data type has the single rule ContainsType(id) and the body is a
\* List.
ListAgainstContainsType ==
    /\ Verified
    /\ RootFound
    /\ Len(Root.rules) = 1
    /\ Root.rules[1].config = "ContainsType"
    /\ vBody.kind = "List"
ElementType == get_data_type_by_id(vFlow.data_types, Root.rules[1].id)
ElementReport(i) ==
    verify_data_type_rules(vBody.values[i], ElementType, vFlow.data_types)

\* C29: a ContainsType rule on a List whose element type exists passes iff
\* every element satisfies the element type, and its report contains the
\* violations of each failing element.
C29_ContainsTypeUnionOfElementReports ==
    (ListAgainstContainsType /\ HasType(vFlow.data_types, Root.rules[1].id)) =>
        /\ is_ok(vResult[1]) <=>
              \A i \in 1..Len(vBody.values) : is_ok(ElementReport(i))
        /\ \A i \in 1..Len(vBody.values) :
              \A j \in 1..Len(ElementReport(i).violations) :
                  \E k \in 1..Len(vResult[1].violations) :
                      vResult[1].violations[k] = ElementReport(i).violations[j]

\* C30: a ContainsType rule on a List whose element type is not among the
\* flow's data types reports MissingDataType with the identifier.
C30_ContainsTypeMissingElementType ==
    (ListAgainstContainsType /\ ~HasType(vFlow.data_types, Root.rules[1].id)) =>
        vResult[1] = Err(<<Violation("MissingDataType", Root.rules[1].id)>>)

\* The root data type has one rule, of the given kind, and verify_flow has
\* returned or panicked.
RootHasOneRule(config) ==
    /\ Verified
    /\ RootFound
    /\ Len(Root.rules) = 1
    /\ Root.rules[1].config = config

\* C31: a ContainsKey rule {key, type} reports ContainsKey(key) when the
\* value is not a Struct or has no value under key, MissingDataType when the
\* referenced type is absent, and otherwise the report of the sub-value
\* stored under key against the referenced type.
C31_ContainsKeyLooksUpRuleKey ==
    RootHasOneRule("ContainsKey") =>
        LET rule == Root.rules[1]
            sub == expect_kind(rule.key, vBody)
        IN  vResult[1] =
              CASE vBody.kind # "Struct" \/ sub = NoKind ->
                      Err(<<Violation("ContainsKey", rule.key)>>)
                [] ~HasType(vFlow.data_types, rule.id) ->
                      Err(<<Violation("MissingDataType", rule.id)>>)
                [] OTHER ->
                      verify_data_type_rules(
                          sub, get_data_type_by_id(vFlow.data_types, rule.id),
                          vFlow.data_types)

\* C32: a Regex rule whose pattern is not a valid regular expression makes
\* verify_flow return a report with an InvalidFormat violation; the
\* validation does not abort its caller.
C32_InvalidRegexIsInvalidFormat ==
    ( /\ Verified
      /\ RootFound
      /\ \E i \in 1..Len(Root.rules) :
            /\ Root.rules[i].config = "Regex"
            /\ ~regex_new_ok(Root.rules[i].pattern) ) =>
        /\ ~vResult[1].panic
        /\ \E k \in 1..Len(vResult[1].violations) :
              vResult[1].violations[k][1] = "InvalidFormat"

\* The string form of a Bool, Number, Null or String value.
StringForm(v) ==
    CASE v.kind = "Bool" /\ v.b -> <<"t", "r", "u", "e">>
      [] v.kind = "Bool" -> <<"f", "a", "l", "s", "e">>
      [] v.kind = "Number" -> <<Digits[v.n + 1]>>
      [] v.kind = "Null" -> <<"n", "u", "l", "l">>
      [] v.kind = "String" -> v.s

\* C33: a Regex rule with a valid pattern passes a Bool, Number, Null or
\* String iff its string form matches the pattern and otherwise reports
\* exactly one Regex(pattern) violation; a List or Struct gets exactly one
\* RegexTypeNotAccepted violation whatever the pattern.
C33_RegexOnStringForm ==
    (RootHasOneRule("Regex") /\ vBody.kind # "None") =>
        LET p == Root.rules[1].pattern
        IN  IF vBody.kind \in {"List", "Struct"}
               THEN /\ ~vResult[1].panic
                    /\ Len(vResult[1].violations) = 1
                    /\ vResult[1].violations[1][1] = "RegexTypeNotAccepted"
               ELSE regex_new_ok(p) =>
                      vResult[1] =
                          IF is_match(p, StringForm(vBody))
                             THEN Ok
                             ELSE Err(<<Violation("Regex", p)>>)

\* C33 witness: each conversion has been matched and a container rejected.
C33_Witness ==
    /\ RootHasOneRule("Regex")
    /\ \/ vBody = BoolV(FALSE) /\ Root = Lower /\ vResult[1] = Ok
       \/ vBody = NullV /\ Root = Lower /\ vResult[1] = Ok
       \/ vBody = Num(3) /\ Root = Digit /\ vResult[1] = Ok
       \/ vBody = Num(3) /\ Root = Lower
            /\ vResult[1] = Err(<<Violation("Regex", Letters)>>)
       \/ vBody.kind = "List" /\ Root = Bad /\ ~is_ok(vResult[1])

C38_AtMostOneDispatchOnlyOnSingle ==
    /\ Len(bus) <= 1
    /\ dPc["c2"] = "idle"
    /\ (dPc["c1"] # "idle" \/ bus # <<>>) =>
          /\ scanResult.kind = "Single"
          /\ reqSlug # NoSlug
          /\ reqBody \notin {"read_error", "undecodable"}

\* C38 witness: a request that matched one flow has been answered after one
\* request on the bus.
C38_Witness ==
    /\ hPc = "responded"
    /\ scanResult.kind = "Single"
    /\ Len(bus) = 1
    /\ bus[1].flow = scanResult.flows[1]

(***************************************************************************)
(* Termination of verify_flow, checked under SpecVerify.                   *)
(***************************************************************************)
SetMax(S) == IF S = {} THEN 0 ELSE CHOOSE m \in S : \A x \in S : x <= m

\* How deep the lists and structs of a value are nested.
RECURSIVE ValueDepth(_)
ValueDepth(v) ==
    CASE v.kind = "List" ->
            1 + SetMax({ValueDepth(v.values[i]) : i \in 1..Len(v.values)})
      [] v.kind = "Struct" ->
            1 + SetMax({ValueDepth(v.fields[k]) : k \in DOMAIN v.fields})
      [] OTHER -> 0

\* The length of the longest chain of nested calls of verify_data_type_rules
\* that starts with (body, dt), followed for at most `fuel` calls.
RECURSIVE CallDepth(_, _, _, _)
CallDepth(body, dt, types, fuel) ==
    IF fuel = 0
       THEN 0
       ELSE 1 + SetMax({CallDepth(c[1], c[2], types, fuel - 1) :
                          c \in UNION {SubCalls(dt.rules[i], body, types) :
                                          i \in 1..Len(dt.rules)}})

\* C40: verify_flow terminates on every value and every universe of data
\* types, cyclic ones included: each nested call is made on a strict
\* sub-value, so no chain of nested calls is longer than the value is deep.
C40_RecursionDescendsIntoSubValues ==
    (Verified /\ RootFound) =>
        /\ CallDepth(vBody, Root, vFlow.data_types, ValueDepth(vBody) + 2)
              <= ValueDepth(vBody) + 1
        /\ \A i \in 1..Len(Root.rules) :
              \A c \in SubCalls(Root.rules[i], vBody, vFlow.data_types) :
                  ValueDepth(c[1]) < ValueDepth(vBody)

\* C40 witness: data types that refer to themselves or to each other have
\* been verified against values nested three deep, with nested calls down
\* to the innermost value.
C40_Witness ==
    /\ Verified
    /\ RootFound
    /\ Root \in {Loop, Ping, Nest}
    /\ ValueDepth(vBody) >= 2
    /\ CallDepth(vBody, Root, vFlow.data_types, ValueDepth(vBody) + 2) >= 3

====
